---------------------------- MODULE Spec2Model ----------------------------
(***************************************************************************)
(* A model of the errai ID3v2 parser (crates/parser): the unsynchronisation *)
(* reader, the byte-slice view, the frame header parsers of ID3v2.2/2.3/2.4,*)
(* the frame iterator, the tag header, Tag::from_reader and the decoding of *)
(* frame bodies (Content::decode).                                          *)
(* Bytes are the integers 0..255, byte strings are sequences of them.       *)
(***************************************************************************)
EXTENDS Integers, Sequences, FiniteSets, TLC

VARIABLES
  \* ---- build profile (debug builds check integer overflow, release wraps)
  overflow_checks,
  \* ---- Unsync<R> over a Cursor (unsync.rs)
  u_src,      \* the bytes of the underlying reader
  u_pos,      \* how many bytes of u_src the underlying reader has handed out
  bcache,     \* Unsync::bcache
  bstale,     \* Unsync::bstale
  cursor,     \* Unsync::cursor
  u_out,      \* every byte returned to the caller so far, in order
  u_ret,      \* the value of the last read call (-1 before the first)
  u_reads,    \* number of read calls made
  \* ---- FrameIter over a tag body (id3v2/iter.rs)
  version,    \* header.version()
  parts,      \* the pieces the body was assembled from
  body,       \* tag.buffer()
  buffer,     \* FrameIter::buffer, a view [start, len] into body
  yielded,    \* the items returned by next() so far
  last,       \* what the last call to next() returned: "Some", "None", "-"
  calls,      \* number of calls of next()
  pc,         \* "run", or "abort" once a panic unwound the iteration
  \* ---- Header::from_reader / Tag::from_reader (id3v2/header.rs, tag.rs)
  h_input,    \* the bytes handed to Header::from_reader
  h_result,   \* its result, [tag |-> "-"] before the call
  t_input,    \* the first bytes of the reader handed to Tag::from_reader
  t_fill,     \* how many 64 KiB blocks of 0x00 the reader holds after them
  t_pc,       \* "start", "header" (header parsed), "done"
  t_header,   \* result of Header::from_reader inside Tag::from_reader
  t_result,   \* result of Tag::from_reader
  \* ---- DynFrame::from_slice on one frame (frame/any.rs)
  f_version,  \* the version of the tag the frame belongs to
  f_input,    \* the bytes of the slice
  f_result,   \* the result of from_slice, [tag |-> "-"] before the call
  \* ---- Content::decode on one frame body (content/content.rs)
  c_version,  \* the version of the tag the frame belongs to
  c_name,     \* the frame identifier
  c_body,     \* the bytes of the frame body
  c_seeks_end,\* whether the std built in leaves a Cursor at the end of its
              \* slice when read_exact runs out of bytes (else it stays put)
  c_result,   \* the result of decode, [tag |-> "-"] before the call
  \* ---- ChapIter over the sub-frames of a CHAP frame (content/frames/chap.rs)
  ch_parts,   \* the pieces the sub-frame data was assembled from
  ch_body,    \* chap.sub_frames()
  ch_pos,     \* ChapIter::inner, the position of its Decoder
  ch_yielded, \* the items returned by next() so far
  ch_last,    \* what the last call to next() returned: "Some", "None", "-"
  ch_calls,   \* number of calls of next()
  ch_pc,      \* "run", or "abort" once a panic unwound the iteration
  \* ---- one call of a function without state (utils.rs, types/slice.rs, ...)
  p_fn,       \* the function that is called
  p_arg,      \* its arguments
  p_ret,      \* what it returned
  p_done,     \* whether the call has been made
  \* ---- SyltIter over the binary data of a SYLT frame (content/frames/sylt.rs)
  sy_fmt,       \* Sylt::text_encoding
  sy_parts,     \* the pieces the binary data was assembled from
  sy_data,      \* Sylt::binary_data
  sy_pos,       \* position of the cursor of SyltIter::inner
  sy_seeks_end, \* whether a failed read_exact leaves the cursor at the end
  sy_yielded,   \* the items returned by next() so far
  sy_last,      \* what the last call to next() returned: "Some", "None", "-"
  sy_calls,     \* number of calls of next()
  sy_pc         \* "run", or "abort" once a panic unwound the iteration

vars == <<overflow_checks, u_src, u_pos, bcache, bstale, cursor, u_out, u_ret,
          u_reads, version, parts, body, buffer, yielded, last, calls, pc,
          h_input, h_result, t_input, t_fill, t_pc, t_header, t_result,
          f_version, f_input, f_result,
          c_version, c_name, c_body, c_seeks_end, c_result,
          ch_parts, ch_body, ch_pos, ch_yielded, ch_last, ch_calls, ch_pc,
          p_fn, p_arg, p_ret, p_done,
          sy_fmt, sy_parts, sy_data, sy_pos, sy_seeks_end, sy_yielded, sy_last, sy_calls, sy_pc>>

unsyncVars == <<u_src, u_pos, bcache, bstale, cursor, u_out, u_ret, u_reads>>
iterVars   == <<version, parts, body, buffer, yielded, last, calls, pc>>
headerVars == <<h_input, h_result>>
tagVars    == <<t_input, t_fill, t_pc, t_header, t_result>>
frameVars  == <<f_version, f_input, f_result>>
contentVars == <<c_version, c_name, c_body, c_seeks_end, c_result>>
chapVars == <<ch_parts, ch_body, ch_pos, ch_yielded, ch_last, ch_calls, ch_pc>>
callVars == <<p_fn, p_arg, p_ret, p_done>>
syltVars == <<sy_fmt, sy_parts, sy_data, sy_pos, sy_seeks_end, sy_yielded, sy_last, sy_calls, sy_pc>>

-----------------------------------------------------------------------------
(* Bounds of the model *)

MaxSrcLen == 4     \* longest source stream given to Unsync
MaxBuf    == 3     \* largest caller buffer of a chunked read
MaxReads  == 6     \* read calls made on one Unsync reader
MaxParts  == 3     \* pieces a tag body is assembled from
MaxCalls  == 5     \* calls of FrameIter::next on one iterator
MaxTail   == 3     \* bytes that follow the tag header in a Tag input
MaxFrameTail == 6  \* bytes that follow the 6 or 10 header bytes of a frame
MaxBody   == 4     \* longest frame body built from ContentBytes
MaxInflated == 2  \* bytes the decompressor answers with
MaxCow    == 1     \* bytes of a Cow
MaxVec    == 2     \* values in a Vec
MaxSlice  == 3     \* bytes under a Slice
MaxLatin1 == 2     \* bytes of a Latin-1 string
MaxLyrics == 2     \* pieces of the binary data of a SYLT frame
MaxPicTail == 2    \* bytes that follow the picture type in a picture body

-----------------------------------------------------------------------------
(* Helpers on integers and byte strings *)

Min(a, b) == IF a <= b THEN a ELSE b

RECURSIVE Pow2(_)
Pow2(n) == IF n = 0 THEN 1 ELSE 2 * Pow2(n - 1)

Bit(x, k) == (x \div Pow2(k)) % 2

\* bitwise or of two naturals
RECURSIVE BitOr(_, _)
BitOr(a, b) ==
  IF a = 0 THEN b
  ELSE IF b = 0 THEN a
  ELSE (IF (a % 2) + (b % 2) > 0 THEN 1 ELSE 0) + 2 * BitOr(a \div 2, b \div 2)

\* x << k on a u32, for the shifts that stay below 2^31 (a byte by at most 22)
Shl32(x, k) == x * Pow2(k)

\* flags.contains(mask) for a single-bit mask 2^k
Contains(flags, k) == Bit(flags, k) = 1

RECURSIVE SeqsUpTo(_, _)
SeqsUpTo(S, n) ==
  IF n = 0 THEN {<<>>}
  ELSE LET R == SeqsUpTo(S, n - 1)
       IN  R \cup {Append(s, x) : s \in {r \in R : Len(r) = n - 1}, x \in S}

RECURSIVE Concat(_)
Concat(ss) == IF ss = <<>> THEN <<>> ELSE Head(ss) \o Concat(Tail(ss))

RECURSIVE Zeros(_)
Zeros(n) == IF n = 0 THEN <<>> ELSE <<0>> \o Zeros(n - 1)

IsPrefix(p, s) == Len(p) <= Len(s) /\ SubSeq(s, 1, Len(p)) = p

AllNul(s) == \A i \in 1..Len(s) : s[i] = 0

-----------------------------------------------------------------------------
(* Unsync<R>: the unsynchronisation reader (unsync.rs)                      *)

\* a variant of the pair test that compares only the incoming byte
unsync_is_pair_any_nul(cache, byte) == byte = 0

\* the pair test of Unsync::read: the byte is withheld when it is the 0x00 of
\* a [0xFF, 0x00] pair
unsync_is_pair(cache, byte) == cache = 255 /\ byte = 0

\* after writing a byte that fills the caller's buffer the loop breaks before
\* "self.bcache = byte" runs, so bcache keeps its old value
unsync_cache_on_full(cache, byte) == cache

\* The loop of Unsync::read.  src/pos is the underlying Cursor, bc/bs the
\* fields bcache/bstale, buf the bytes written to buffer[0..cursor) so far,
\* length the length of the caller's buffer.
RECURSIVE unsync_loop(_, _, _, _, _, _)
unsync_loop(src, pos, bc, bs, buf, length) ==
  IF pos >= Len(src)
  THEN \* read_u8 fails with UnexpectedEof: break
       [pos |-> pos, bcache |-> bc, bstale |-> bs, buf |-> buf]
  ELSE LET byte == src[pos + 1] IN
       IF ~unsync_is_pair(bc, byte)
       THEN LET buf2 == Append(buf, byte) IN
            IF Len(buf2) = length
            THEN [pos |-> pos + 1, bcache |-> unsync_cache_on_full(bc, byte),
                  bstale |-> FALSE, buf |-> buf2]
            ELSE unsync_loop(src, pos + 1, byte, FALSE, buf2, length)
       ELSE unsync_loop(src, pos + 1, byte, TRUE, buf, length)

\* One call of Unsync::read with a buffer of length >= 1 bytes (an empty
\* buffer returns Ok(0) at once and touches nothing): the new reader state,
\* the return value and the bytes buffer[0..ret).
unsync_read(src, pos, bc, bs, length) ==
  LET r == unsync_loop(src, pos, bc, bs, <<>>, length)
      c == Len(r.buf)
  IN  [pos |-> r.pos, bcache |-> r.bcache, bstale |-> r.bstale,
       cursor |-> c,
       ret  |-> c + (IF r.bstale THEN 1 ELSE 0),
       data |-> IF r.bstale THEN Append(r.buf, r.bcache) ELSE r.buf]

\* Read::read_exact on an Unsync reader (the std default): read until the
\* buffer is full or a read returns 0.
RECURSIVE unsync_read_exact(_, _, _, _, _, _)
unsync_read_exact(src, pos, bc, bs, got, size) ==
  IF Len(got) = size THEN [ok |-> TRUE, data |-> got, pos |-> pos]
  ELSE LET r == unsync_read(src, pos, bc, bs, size - Len(got)) IN
       IF r.ret = 0 THEN [ok |-> FALSE, data |-> got, pos |-> r.pos]
       ELSE unsync_read_exact(src, r.pos, r.bcache, r.bstale, got \o r.data, size)

UnsyncBytes == {0, 1, 128, 255}

InitUnsyncIdle ==
  /\ u_src = <<>> /\ u_pos = 0 /\ bcache = 0 /\ bstale = FALSE /\ cursor = 0
  /\ u_out = <<>> /\ u_ret = -1 /\ u_reads = 0

\* Unsync::new over a Cursor on some finite stream
InitUnsync ==
  /\ u_src \in SeqsUpTo(UnsyncBytes, MaxSrcLen)
  /\ u_pos = 0 /\ bcache = 0 /\ bstale = FALSE /\ cursor = 0
  /\ u_out = <<>> /\ u_ret = -1 /\ u_reads = 0

\* the caller reads with a buffer of n bytes, as read_to_end does until a
\* read returns 0
UnsyncRead(n) ==
  /\ u_ret # 0
  /\ u_reads < MaxReads
  /\ LET r == unsync_read(u_src, u_pos, bcache, bstale, n) IN
       /\ u_pos' = r.pos
       /\ bcache' = r.bcache
       /\ bstale' = r.bstale
       /\ cursor' = r.cursor
       /\ u_ret' = r.ret
       /\ u_out' = u_out \o r.data
       /\ u_reads' = u_reads + 1
  /\ u_src' = u_src

\* a buffer that no stream of the model fills
WholeBuf == MaxSrcLen + 2

ReadChunk == \E n \in 1..MaxBuf : UnsyncRead(n)
ReadWhole == UnsyncRead(WholeBuf)

-----------------------------------------------------------------------------
(* Integer decoding (utils.rs, traits/read.rs)                              *)

\* utils::decode_u28_unsync: the bytes are or-ed in unmasked (MASK is 0xFF)
decode_u28_unsync(b) ==
  BitOr(BitOr(Shl32(b[1], 21), Shl32(b[2], 14)), BitOr(Shl32(b[3], 7), b[4]))

\* utils::decode_u24
decode_u24(b) == BitOr(BitOr(Shl32(b[1], 16), Shl32(b[2], 8)), b[3])

\* ReadBytesExt::read_u32::<BE> and read_u16::<BE>
decode_u32(b) == b[1] * 16777216 + b[2] * 65536 + b[3] * 256 + b[4]
decode_u16(b) == b[1] * 256 + b[2]

\* utils::is_frame_id: every byte is A-Z or 0-9
is_frame_id(b) ==
  \A i \in 1..Len(b) : (b[i] >= 65 /\ b[i] <= 90) \/ (b[i] >= 48 /\ b[i] <= 57)

-----------------------------------------------------------------------------
(* Slice: a view [start, len] into a byte string (types/slice.rs)           *)

Slice_empty == [start |-> 0, len |-> 0]

ViewBytes(b, s) == SubSeq(b, s.start + 1, s.start + s.len)

\* Slice::skip on the empty slice computes len() - 1 = 0 - 1: a panic where
\* overflow is checked; otherwise the index wraps and get_unchecked(count..)
\* is outside the slice for every count > 0.
slice_skip_fault(s, count, checks) ==
  IF s.len > 0 THEN "none"
  ELSE IF checks THEN "panic"
  ELSE IF count = 0 THEN "none" ELSE "undefined"

\* a skip that advances one byte too far
slice_skip_off_by_one(s, count) ==
  LET k == Min(count + 1, s.len) IN [start |-> s.start + k, len |-> s.len - k]

\* Slice::skip, get_unchecked(count.min(len - 1)..), where no fault occurs
slice_skip(s, count) ==
  IF s.len = 0 THEN s
  ELSE LET k == Min(count, s.len - 1) IN [start |-> s.start + k, len |-> s.len - k]

\* Slice::take, get_unchecked(..count.min(len))
slice_take(s, count) == [start |-> s.start, len |-> Min(count, s.len)]

\* Slice::view
slice_view(s, start, count) == slice_take(slice_skip(s, start), count)

-----------------------------------------------------------------------------
(* Frame header parsers (frame/v22.rs, frame/v23.rs, frame/v24.rs)          *)

FrameV2_SIZE == 6
FrameV3_SIZE == 10
FrameV4_SIZE == 10

NoFrame == [identifier |-> <<>>, descriptor |-> 0, flag_bytes |-> 0,
            extra_size |-> 0, frame_data |-> Slice_empty, total_size |-> 0]

FrameErr(kind)  == [tag |-> "Err", kind |-> kind, frame |-> NoFrame]
FramePanic(why) == [tag |-> "Panic", kind |-> why, frame |-> NoFrame]
FrameSome(f)    == [tag |-> "Some", kind |-> "-", frame |-> f]

\* total_size() without the header
total_size_no_header(SIZE, descriptor) == descriptor

\* FrameV2/V3/V4::total_size: Self::SIZE + self.descriptor() as usize
total_size(SIZE, descriptor) == SIZE + descriptor

\* FrameV2::from_slice on the view s of b
FrameV2_from_slice(b, s) ==
  LET d == ViewBytes(b, s) IN
  IF Len(d) < 3 THEN FrameErr("IO")
  ELSE IF ~is_frame_id(SubSeq(d, 1, 3)) THEN FrameErr("InvalidFrameId")
  ELSE IF Len(d) < 6 THEN FrameErr("IO")
  ELSE LET descriptor == decode_u24(SubSeq(d, 4, 6)) IN
       IF descriptor = 0 THEN FrameErr("Int")
       ELSE FrameSome([identifier |-> SubSeq(d, 1, 3),
                       descriptor |-> descriptor,
                       flag_bytes |-> 0,
                       extra_size |-> 0,
                       frame_data |-> slice_view(s, FrameV2_SIZE, descriptor),
                       total_size |-> total_size(FrameV2_SIZE, descriptor)])

\* FrameV3Extra::from_reader: the reads made after the 10 header bytes, in
\* the order COMPRESSION (u32), ENCRYPTION (u8), GROUPING_IDENTITY (u8)
FrameV3Extra_from_reader(flags, avail) ==
  LET comp == IF Contains(flags, 7) THEN 4 ELSE 0
      encr == IF Contains(flags, 6) THEN 1 ELSE 0
      grid == IF Contains(flags, 5) THEN 1 ELSE 0
  IN  IF comp > avail THEN [tag |-> "Err", kind |-> "IO", size |-> 0]
      ELSE IF comp + encr > avail THEN [tag |-> "Err", kind |-> "IO", size |-> 0]
      ELSE IF comp + encr + grid > avail THEN [tag |-> "Err", kind |-> "IO", size |-> 0]
      ELSE [tag |-> "Ok", kind |-> "-", size |-> comp + encr + grid]

\* FrameV4Extra::from_reader: GROUPING_IDENTITY (u8), COMPRESSION (requires
\* the data length indicator), ENCRYPTION (u8), UNSYNCHRONISATION (panics),
\* DATA_LENGTH_INDICATOR (u32)
FrameV4Extra_from_reader(flags, avail) ==
  LET grid == IF Contains(flags, 6) THEN 1 ELSE 0
      require_dlen == Contains(flags, 3)
      encr == IF Contains(flags, 2) THEN 1 ELSE 0
  IN  IF grid > avail THEN [tag |-> "Err", kind |-> "IO", size |-> 0]
      ELSE IF grid + encr > avail THEN [tag |-> "Err", kind |-> "IO", size |-> 0]
      ELSE IF Contains(flags, 1)
           THEN [tag |-> "Panic", kind |-> "TODO: Handle UNSYNCHRONISATION - V4", size |-> 0]
      ELSE IF Contains(flags, 0)
           THEN IF grid + encr + 4 > avail
                THEN [tag |-> "Err", kind |-> "IO", size |-> 0]
                ELSE [tag |-> "Ok", kind |-> "-", size |-> grid + encr + 4]
      ELSE IF require_dlen THEN [tag |-> "Err", kind |-> "InvalidBitFlag", size |-> 0]
      ELSE [tag |-> "Ok", kind |-> "-", size |-> grid + encr]

\* The tail shared by FrameV3::from_slice and FrameV4::from_slice once the
\* identifier and the descriptor are read: flags, extras and the body view
\* skip(SIZE + extra).take(descriptor - extra).  descriptor - extra is a usize
\* subtraction: below zero it panics where overflow is checked and wraps
\* otherwise, and take() then keeps everything that is left.
FrameV34_tail(s, d, descriptor, extra, SIZE, checks) ==
  IF extra.tag = "Err" THEN FrameErr(extra.kind)
  ELSE IF extra.tag = "Panic" THEN FramePanic(extra.kind)
  ELSE IF descriptor < extra.size /\ checks
       THEN FramePanic("attempt to subtract with overflow")
  ELSE LET rest  == slice_skip(s, SIZE + extra.size)
           \* the wrapped difference, 2^64 + descriptor - extra, exceeds any length
           count == IF descriptor < extra.size THEN rest.len
                    ELSE descriptor - extra.size
       IN  FrameSome([identifier |-> SubSeq(d, 1, 4),
                      descriptor |-> descriptor,
                      flag_bytes |-> decode_u16(SubSeq(d, 9, 10)),
                      extra_size |-> extra.size,
                      frame_data |-> slice_take(rest, count),
                      total_size |-> total_size(SIZE, descriptor)])

\* FrameV3::from_slice
FrameV3_from_slice(b, s, checks) ==
  LET d == ViewBytes(b, s) IN
  IF Len(d) < 4 THEN FrameErr("IO")
  ELSE IF ~is_frame_id(SubSeq(d, 1, 4)) THEN FrameErr("InvalidFrameId")
  ELSE IF Len(d) < 8 THEN FrameErr("IO")
  ELSE LET descriptor == decode_u32(SubSeq(d, 5, 8)) IN
       IF descriptor = 0 THEN FrameErr("Int")
       ELSE IF Len(d) < 10 THEN FrameErr("IO")
       ELSE FrameV34_tail(s, d, descriptor,
              FrameV3Extra_from_reader(decode_u16(SubSeq(d, 9, 10)), Len(d) - 10),
              FrameV3_SIZE, checks)

\* FrameV4::from_slice
FrameV4_from_slice(b, s, checks) ==
  LET d == ViewBytes(b, s) IN
  IF Len(d) < 4 THEN FrameErr("IO")
  ELSE IF ~is_frame_id(SubSeq(d, 1, 4)) THEN FrameErr("InvalidFrameId")
  ELSE IF Len(d) < 8 THEN FrameErr("IO")
  ELSE LET descriptor == decode_u28_unsync(SubSeq(d, 5, 8)) IN
       IF descriptor = 0 THEN FrameErr("Int")
       ELSE IF Len(d) < 10 THEN FrameErr("IO")
       ELSE FrameV34_tail(s, d, descriptor,
              FrameV4Extra_from_reader(decode_u16(SubSeq(d, 9, 10)), Len(d) - 10),
              FrameV4_SIZE, checks)

\* DynFrame::from_slice
DynFrame_from_slice(v, b, s, checks) ==
  CASE v = "ID3v22" -> FrameV2_from_slice(b, s)
    [] v = "ID3v23" -> FrameV3_from_slice(b, s, checks)
    [] v = "ID3v24" -> FrameV4_from_slice(b, s, checks)
    [] OTHER -> FrameErr("InvalidVersion")

Versions == {"ID3v22", "ID3v23", "ID3v24"}

\* ---- one call of DynFrame::from_slice on a slice that holds one frame

NotParsed == [tag |-> "-", kind |-> "-", frame |-> NoFrame]

\* identifiers: a valid one and NUL bytes
FrameIdBytes(v) ==
  IF v = "ID3v22" THEN { <<84, 65, 76>>, <<0, 0, 0>> }              \* TAL
                  ELSE { <<84, 65, 76, 66>>, <<0, 0, 0, 0>> }       \* TALB

\* size bytes, among them bytes with the top bit set
FrameSizeBytes(v) ==
  LET low == { <<b1, b2, b3>> : b1 \in {0, 1, 129}, b2 \in {0, 1, 129},
                                b3 \in {0, 1, 72, 255} }
  IN  IF v = "ID3v22" THEN low
      ELSE { <<b0>> \o l : b0 \in {0, 1}, l \in low }

\* flag bytes: none in v2.2; v2.3 GROUPING_IDENTITY, COMPRESSION; v2.4
\* GROUPING_IDENTITY, COMPRESSION, ENCRYPTION, UNSYNCHRONISATION,
\* DATA_LENGTH_INDICATOR and pairs of them
FrameFlagBytes(v) ==
  CASE v = "ID3v22" -> { <<>> }
    [] v = "ID3v23" -> { <<0, f>> : f \in {0, 32, 128} }
    [] v = "ID3v24" -> { <<0, f>> : f \in {0, 64, 8, 9, 2, 10, 4, 12, 1} }

\* the bytes after the header: 1, 0, 1, 0, ...
FrameTail(k) == [i \in 1..k |-> i % 2]

FrameInputs(v) ==
  { id \o sz \o fl \o FrameTail(k) :
      id \in FrameIdBytes(v), sz \in FrameSizeBytes(v), fl \in FrameFlagBytes(v),
      k \in 0..MaxFrameTail }
  \cup { <<84, 65>>, <<84, 65, 76, 66, 0, 0>> }      \* header cut short

InitFrameIdle == f_version = "ID3v22" /\ f_input = <<>> /\ f_result = NotParsed

InitFrame ==
  /\ f_version \in Versions
  /\ f_input \in FrameInputs(f_version)
  /\ f_result = NotParsed

\* the call DynFrame::from_slice(version, Slice::new(f_input))
ParseFrame ==
  /\ f_result.tag = "-"
  /\ f_result' = DynFrame_from_slice(f_version, f_input,
                    [start |-> 0, len |-> Len(f_input)], overflow_checks)
  /\ UNCHANGED <<f_version, f_input>>

-----------------------------------------------------------------------------
(* FrameIter (id3v2/iter.rs)                                                *)

\* an item of the iteration: Some(Ok(frame)) parsed at body offset off, or
\* Some(Err(error)) raised at body offset off
OkItem(off, f, b) ==
  [kind |-> "Ok", err |-> "-", off |-> off, identifier |-> f.identifier,
   descriptor |-> f.descriptor, total_size |-> f.total_size,
   data |-> ViewBytes(b, f.frame_data)]
ErrItem(off, kind) ==
  [kind |-> "Err", err |-> kind, off |-> off, identifier |-> <<>>,
   descriptor |-> 0, total_size |-> 0, data |-> <<>>]

\* an iterator that keeps its buffer after an error
iter_buffer_after_err_keep(buf) == buf

\* the Err arm of FrameIter::next: self.buffer = Slice::empty()
iter_buffer_after_err(buf) == Slice_empty

\* FrameIter::next
IterNext ==
  /\ pc = "run"
  /\ calls < MaxCalls
  /\ calls' = calls + 1
  /\ IF buffer.len = 0
     THEN /\ last' = "None"
          /\ UNCHANGED <<buffer, yielded, pc>>
     ELSE LET r == DynFrame_from_slice(version, body, buffer, overflow_checks) IN
          CASE r.tag = "None" ->
                 /\ buffer' = Slice_empty
                 /\ last' = "None"
                 /\ UNCHANGED <<yielded, pc>>
            [] r.tag = "Some" ->
                 /\ buffer' = slice_skip(buffer, r.frame.total_size)
                 /\ yielded' = Append(yielded, OkItem(buffer.start, r.frame, body))
                 /\ last' = "Some"
                 /\ pc' = pc
            [] r.tag = "Err" ->
                 /\ buffer' = iter_buffer_after_err(buffer)
                 /\ yielded' = Append(yielded, ErrItem(buffer.start, r.kind))
                 /\ last' = "Some"
                 /\ pc' = pc
            [] r.tag = "Panic" ->
                 /\ pc' = "abort"
                 /\ UNCHANGED <<buffer, yielded, last>>
  /\ UNCHANGED <<version, parts, body>>

\* Well-formed frames: a valid identifier, a non-zero descriptor, flags whose
\* extra fields are present, and the whole body.
WellFormedFrames(v) ==
  CASE v = "ID3v22" -> { <<84, 65, 76,  0, 0, 2,  0, 72>>,                  \* TAL
                         <<84, 84, 50,  0, 0, 1,  7>> }                     \* TT2
    [] v = "ID3v23" -> { <<84, 65, 76, 66,  0, 0, 0, 2,  0, 0,   0, 72>>,   \* TALB
                         <<84, 73, 84, 50,  0, 0, 0, 2,  0, 32,  9, 7>> }   \* TIT2, grouped
    [] v = "ID3v24" -> { <<84, 65, 76, 66,  0, 0, 0, 2,  0, 0,   0, 72>>,   \* TALB
                         <<84, 73, 84, 50,  0, 0, 0, 2,  0, 64,  9, 7>> }   \* TIT2, grouped

\* NUL padding
NulChunks == { <<0>>, Zeros(4), Zeros(10) }

\* Pieces that are no frame
JunkChunks(v) ==
  CASE v = "ID3v22" -> { <<116, 65, 76,  0, 0, 1,  5>>,     \* lower-case identifier
                         <<84, 65, 76,  0, 0, 0>>,          \* descriptor 0
                         <<84, 65, 76,  0, 0, 4,  9>>,      \* body cut short
                         <<84, 65>> }                       \* header cut short
    [] v = "ID3v23" -> { <<116, 65, 76, 66,  0, 0, 0, 1,  0, 0,  5>>,
                         <<84, 65, 76, 66,  0, 0, 0, 0,  0, 0>>,
                         <<84, 65, 76, 66,  0, 0, 0, 4,  0, 0,  9>>,
                         <<84, 65, 76, 66,  0, 0, 0, 1,  0, 128,  0, 0, 0, 1>> } \* descriptor < extras
    [] v = "ID3v24" -> { <<116, 65, 76, 66,  0, 0, 0, 1,  0, 0,  5>>,
                         <<84, 65, 76, 66,  0, 0, 0, 0,  0, 0>>,
                         <<84, 65, 76, 66,  0, 0, 0, 1,  0, 2,  5>>,   \* per-frame unsynchronisation
                         <<84, 65, 76, 66,  0, 0, 0, 1,  0, 8,  5>> }  \* compression, no length

Chunks(v) == WellFormedFrames(v) \cup NulChunks \cup JunkChunks(v)

InitIterIdle ==
  /\ version = "ID3v22" /\ parts = <<>> /\ body = <<>> /\ buffer = Slice_empty
  /\ yielded = <<>> /\ last = "-" /\ calls = 0 /\ pc = "run"

\* tag.frames() on a tag of some version whose body is some pieces
InitIter ==
  /\ version \in Versions
  /\ parts \in SeqsUpTo(Chunks(version), MaxParts)
  /\ body = Concat(parts)
  /\ buffer = [start |-> 0, len |-> Len(body)]
  /\ yielded = <<>> /\ last = "-" /\ calls = 0 /\ pc = "run"

-----------------------------------------------------------------------------
(* Header and ExtHeader (id3v2/header.rs, id3v2/extend.rs)                  *)

Header_IDENTIFIER == <<73, 68, 51>>   \* "ID3"

NoHeader == [tag |-> "-", kind |-> "-", version |-> "-", bitflags |-> 0,
             data_len |-> 0, has_ext |-> FALSE, ext_size |-> 0, consumed |-> 0]

HeaderErr(kind)  == [NoHeader EXCEPT !.tag = "Err", !.kind = kind]
HeaderPanic(why) == [NoHeader EXCEPT !.tag = "Panic", !.kind = why]

ExtErr(kind) == [tag |-> "Err", kind |-> kind, ext_size |-> 0, used |-> 0]
ExtOk(size, used) == [tag |-> "Ok", kind |-> "-", ext_size |-> size, used |-> used]

\* ExtHeader::from_reader_v3 on the bytes d that follow the tag header
ExtHeader_from_reader_v3(d) ==
  IF Len(d) < 4 THEN ExtErr("IO")
  ELSE LET ext_size == decode_u32(SubSeq(d, 1, 4)) IN
       IF ~(ext_size = 6 \/ ext_size = 10) THEN ExtErr("InvalidField(ExtSize)")
       ELSE IF Len(d) < 6 THEN ExtErr("IO")
       ELSE IF Len(d) < 10 THEN ExtErr("IO")
       ELSE IF Contains(decode_u16(SubSeq(d, 5, 6)), 15)
            THEN IF Len(d) < 14 THEN ExtErr("IO") ELSE ExtOk(ext_size, 14)
            ELSE ExtOk(ext_size, 10)

\* one flag block of ExtHeader::from_reader_v4: when the flag is set, a
\* length byte that must be `want`, then `want` bytes of data; st is the
\* state so far, [tag, kind, used]
ExtV4_block(d, st, set, want) ==
  IF st.tag # "Ok" \/ ~set THEN st
  ELSE IF Len(d) < st.used + 1 THEN [st EXCEPT !.tag = "Err", !.kind = "IO"]
  ELSE IF d[st.used + 1] # want
       THEN [st EXCEPT !.tag = "Err", !.kind = "InvalidField(ExtFlagData)"]
  ELSE IF Len(d) < st.used + 1 + want THEN [st EXCEPT !.tag = "Err", !.kind = "IO"]
  ELSE [st EXCEPT !.used = st.used + 1 + want]

\* ExtHeader::from_reader_v4 on the bytes d that follow the tag header
ExtHeader_from_reader_v4(d) ==
  IF Len(d) < 4 THEN ExtErr("IO")
  ELSE LET ext_size == decode_u28_unsync(SubSeq(d, 1, 4)) IN
       IF ~(ext_size >= 6 /\ ext_size <= 15) THEN ExtErr("InvalidField(ExtSize)")
       ELSE IF Len(d) < 5 THEN ExtErr("IO")
       ELSE IF d[5] # 1 THEN ExtErr("InvalidField(ExtFlagSize)")
       ELSE IF Len(d) < 6 THEN ExtErr("IO")
       ELSE LET flags == d[6]
                s0 == [tag |-> "Ok", kind |-> "-", used |-> 6]
                s1 == ExtV4_block(d, s0, Contains(flags, 6), 0)   \* TAG_IS_UPDATE
                s2 == ExtV4_block(d, s1, Contains(flags, 5), 5)   \* CRC_DATA_PRESENT
                s3 == ExtV4_block(d, s2, Contains(flags, 4), 1)   \* TAG_RESTRICTIONS
            IN  IF s3.tag = "Ok" THEN ExtOk(ext_size, s3.used) ELSE ExtErr(s3.kind)

\* Header::flag_unsynchronisation
Header_flag_unsynchronisation(h) == Contains(h.bitflags, 7)

\* Header::flag_extended_header
Header_flag_extended_header(h) ==
  h.version \in {"ID3v23", "ID3v24"} /\ Contains(h.bitflags, 6)

\* Header::from_reader on the bytes d
Header_from_reader(d) ==
  IF Len(d) < 3 THEN HeaderErr("IO")
  ELSE IF SubSeq(d, 1, 3) # Header_IDENTIFIER THEN HeaderErr("InvalidField(Identifier)")
  ELSE IF Len(d) < 5 THEN HeaderErr("IO")
  ELSE IF d[4] \notin {2, 3, 4} THEN HeaderErr("InvalidField(Version)")
  ELSE IF Len(d) < 6 THEN HeaderErr("IO")
  ELSE IF Len(d) < 10 THEN HeaderErr("IO")
  ELSE LET this == [tag |-> "Ok", kind |-> "-",
                    version |-> CASE d[4] = 2 -> "ID3v22"
                                  [] d[4] = 3 -> "ID3v23"
                                  [] d[4] = 4 -> "ID3v24",
                    bitflags |-> d[6],
                    data_len |-> decode_u28_unsync(SubSeq(d, 7, 10)),
                    has_ext |-> FALSE, ext_size |-> 0, consumed |-> 10]
       IN  IF ~Header_flag_extended_header(this) THEN this
           ELSE IF Header_flag_unsynchronisation(this)
                THEN HeaderPanic("TODO: Handle UNSYNCHRONISATION")
           ELSE LET rest == SubSeq(d, 11, Len(d))
                    ext  == CASE this.version = "ID3v22" -> ExtErr("InvalidField(Version)")
                              [] this.version = "ID3v23" -> ExtHeader_from_reader_v3(rest)
                              [] this.version = "ID3v24" -> ExtHeader_from_reader_v4(rest)
                IN  IF ext.tag = "Err" THEN HeaderErr(ext.kind)
                    ELSE [this EXCEPT !.has_ext = TRUE, !.ext_size = ext.ext_size,
                                      !.consumed = 10 + ext.used]

\* Header::data_len: self.data_len - header.ext_size() is a u32 subtraction
Header_data_len_overflows(h) == h.has_ext /\ h.data_len < h.ext_size
\* Where the subtraction overflows the value below is negative: a build that
\* checks overflow panics there, any other wraps it to 2^32 + that value.
Header_data_len(h) ==
  IF h.has_ext THEN h.data_len - h.ext_size ELSE h.data_len

IdBytes   == { <<73, 68, 51>>, <<84, 65, 71>>, <<73, 68, 50>>, <<105, 68, 51>> }
Majors    == {1, 2, 3, 4, 5}
Revisions == {0, 3, 255}
HdrFlags  == {0, 64, 128, 192}
SizeBytes == { <<b0, b1, b2, b3>> : b0 \in {0, 128}, b1 \in {0, 1},
                                    b2 \in {0, 2, 129}, b3 \in {0, 1, 127, 255} }

\* the 10-byte inputs handed to Header::from_reader
HeaderInputs ==
  { id \o <<mj, rv, fl>> \o sz :
      id \in IdBytes, mj \in Majors, rv \in Revisions, fl \in HdrFlags, sz \in SizeBytes }

InitHeaderIdle == h_input = <<>> /\ h_result = NoHeader

InitHeader == h_input \in HeaderInputs /\ h_result = NoHeader

\* the call Header::from_reader(Cursor::new(h_input))
ParseHeader ==
  /\ h_result.tag = "-"
  /\ h_result' = Header_from_reader(h_input)
  /\ h_input' = h_input

-----------------------------------------------------------------------------
(* Tag::from_reader (id3v2/tag.rs)                                          *)

\* A u32 is kept as two 16-bit limbs, value = hi * 2^16 + lo, so that values
\* up to 2^32 - 1 can be told apart.
Limb == 65536
u32(n) == [hi |-> n \div Limb, lo |-> n % Limb]
\* a - b in u32 arithmetic that wraps, for b - a <= 2^16
u32_wrapping_sub(a, b) ==
  IF a >= b THEN u32(a - b) ELSE [hi |-> Limb - 1, lo |-> Limb + (a - b)]
u32_le(x, y) == x.hi < y.hi \/ (x.hi = y.hi /\ x.lo <= y.lo)

\* The Tag's buffer is `buffer` followed by `more` bytes 0x00 (more is a u32).
NoTag == [tag |-> "-", kind |-> "-", buffer |-> <<>>, more |-> u32(0)]
TagErr(kind)  == [NoTag EXCEPT !.tag = "Err", !.kind = kind]
TagPanic(why) == [NoTag EXCEPT !.tag = "Panic", !.kind = why]
TagOk(buf)    == [NoTag EXCEPT !.tag = "Ok", !.buffer = buf]

\* ReadExt::read_bytes(length) on a Cursor over rest: read_exact
read_bytes(rest, length) ==
  IF length <= Len(rest) THEN TagOk(SubSeq(rest, 1, length)) ELSE TagErr("IO")

\* ReadExt::read_bytes(length) on Unsync::new(reader)
unsync_read_bytes(rest, length) ==
  LET r == unsync_read_exact(rest, 0, 0, FALSE, <<>>, length) IN
  IF r.ok THEN TagOk(r.data) ELSE TagErr("IO")

\* ReadExt::read_bytes(length) for a length that wrapped past zero, on a
\* Cursor that holds rest and then fill blocks of 0x00: vec![0; length] and
\* read_exact, which succeeds when the reader holds that many bytes
read_bytes_wrapped(rest, fill, length) ==
  IF u32_le(length, [hi |-> fill, lo |-> Len(rest)])
  THEN [TagOk(rest) EXCEPT !.more = [hi |-> length.hi, lo |-> length.lo - Len(rest)]]
  ELSE TagErr("IO")

\* the body read of Tag::from_reader, after the header h was parsed from a
\* reader that holds d and then fill blocks of 0x00
Tag_read_body(d, fill, h, checks) ==
  LET rest == SubSeq(d, h.consumed + 1, Len(d)) IN
  IF Header_data_len_overflows(h)
  THEN IF checks THEN TagPanic("attempt to subtract with overflow")
       ELSE read_bytes_wrapped(rest, fill, u32_wrapping_sub(h.data_len, h.ext_size))
  ELSE LET length == Header_data_len(h)
           \* as much of the 0x00 blocks as a read of length bytes can reach
           reach == IF fill > 0 THEN rest \o Zeros(length + 1) ELSE rest
       IN  IF Header_flag_unsynchronisation(h)
           THEN unsync_read_bytes(reach, length)
           ELSE read_bytes(reach, length)

TagTailBytes == {0, 1, 255}
TagSizes == 0 .. (MaxTail + 1)
ExtPrefixes == { <<>>,
                 <<0, 0, 0, 6,  0, 0,  0, 0, 0, 0>>,   \* 2.3 extended header
                 <<0, 0, 0, 6,  1, 0>> }               \* 2.4 extended header

\* the inputs handed to Tag::from_reader
TagInputs ==
  { <<73, 68, 51, mj, 0, fl, 0, 0, 0, n>> \o ext \o tl :
      mj \in {2, 3, 4}, fl \in {0, 64, 128, 192}, n \in TagSizes \cup {6, 8, 12},
      ext \in ExtPrefixes, tl \in SeqsUpTo(TagTailBytes, MaxTail) }

TagFills == {0, Limb}    \* nothing, or 4 GiB of 0x00

InitTagIdle ==
  /\ t_input = <<>> /\ t_fill = 0 /\ t_pc = "start" /\ t_header = NoHeader /\ t_result = NoTag

InitTag ==
  /\ t_input \in TagInputs /\ t_fill \in TagFills
  /\ t_pc = "start" /\ t_header = NoHeader /\ t_result = NoTag

\* Tag::from_reader, first statement: Header::from_reader(&mut reader)?
TagReadHeader ==
  /\ t_pc = "start"
  /\ LET h == Header_from_reader(t_input) IN
       /\ t_header' = h
       /\ IF h.tag = "Ok"
          THEN t_pc' = "header" /\ t_result' = t_result
          ELSE /\ t_pc' = "done"
               /\ t_result' = IF h.tag = "Err" THEN TagErr(h.kind) ELSE TagPanic(h.kind)
  /\ UNCHANGED <<t_input, t_fill>>

\* Tag::from_reader, the rest: read data_len() bytes, through Unsync when the
\* header's UNSYNCHRONISATION flag is set
TagReadBody ==
  /\ t_pc = "header"
  /\ t_result' = Tag_read_body(t_input, t_fill, t_header, overflow_checks)
  /\ t_pc' = "done"
  /\ UNCHANGED <<t_input, t_fill, t_header>>

-----------------------------------------------------------------------------
(* Content decoding (content/content.rs, decode/decoder.rs,                 *)
(* decode/encoding.rs, content/frames/*.rs)                                 *)

\* ---- the dispatch of Content::decode: <<name, variant>> for every match arm

\* the match on (version, name) in Content::decode: <<name, variant>> for every
\* arm that applies to version v; "TODO" marks an arm that is
\* panic!("TODO: Decode ...")
Content_table(v) ==
  LET
    \* the arms of ID3v2.2
    v22 ==
      { <<"BUF","Rbuf">>, <<"CNT","Pcnt">>, <<"COM","Comm">>, <<"CRA","Aenc">>,
        <<"CRM","TODO">>, <<"ETC","Etco">>, <<"EQU","Equa">>,
        <<"GEO","Geob">>, <<"IPL","Ipls">>, <<"LNK","Link">>,
        <<"MCI","Mcdi">>, <<"MLL","Mllt">>, <<"PIC","Apic">>,
        <<"POP","Popm">>, <<"REV","Rvrb">>, <<"RVA","Rvad">>,
        <<"SLT","Sylt">>, <<"STC","Sytc">>, <<"TAL","Text">>,
        <<"TBP","Text">>, <<"TCM","Text">>, <<"TCO","Text">>,
        <<"TCR","Text">>, <<"TDA","Text">>, <<"TDY","Text">>,
        <<"TEN","Text">>, <<"TFT","Text">>, <<"TIM","Text">>,
        <<"TKE","Text">>, <<"TLA","Text">>, <<"TLE","Text">>,
        <<"TMT","Text">>, <<"TOA","Text">>, <<"TOF","Text">>,
        <<"TOL","Text">>, <<"TOR","Text">>, <<"TOT","Text">>,
        <<"TP1","Text">>, <<"TP2","Text">>, <<"TP3","Text">>,
        <<"TP4","Text">>, <<"TPA","Text">>, <<"TPB","Text">>,
        <<"TRC","Text">>, <<"TRD","Text">>, <<"TRK","Text">>,
        <<"TSI","Text">>, <<"TSS","Text">>, <<"TT1","Text">>,
        <<"TT2","Text">>, <<"TT3","Text">>, <<"TXT","Text">>,
        <<"TXX","Txxx">>, <<"TYE","Text">>, <<"UFI","Ufid">>,
        <<"ULT","Uslt">>, <<"WAF","Woaf">>, <<"WAR","Woar">>,
        <<"WAS","Woas">>, <<"WCM","Wcom">>, <<"WCP","Wcop">>,
        <<"WPB","Wpub">>, <<"WXX","Wxxx">> }
    \* the arms shared by ID3v2.3 and ID3v2.4
    shared ==
      { <<"AENC","Aenc">>, <<"APIC","Apic">>, <<"COMM","Comm">>,
        <<"COMR","Comr">>, <<"ENCR","Encr">>, <<"ETCO","Etco">>,
        <<"GEOB","Geob">>, <<"GRID","Grid">>, <<"LINK","Link">>,
        <<"MCDI","Mcdi">>, <<"MLLT","Mllt">>, <<"OWNE","Owne">>,
        <<"PRIV","Priv">>, <<"PCNT","Pcnt">>, <<"POPM","Popm">>,
        <<"POSS","Poss">>, <<"RBUF","Rbuf">>, <<"RVRB","Rvrb">>,
        <<"SYLT","Sylt">>, <<"SYTC","Sytc">>, <<"TALB","Text">>,
        <<"TBPM","Text">>, <<"TCOM","Text">>, <<"TCON","Text">>,
        <<"TCOP","Text">>, <<"TDLY","Text">>, <<"TENC","Text">>,
        <<"TEXT","Text">>, <<"TFLT","Text">>, <<"TIT1","Text">>,
        <<"TIT2","Text">>, <<"TIT3","Text">>, <<"TKEY","Text">>,
        <<"TLAN","Text">>, <<"TLEN","Text">>, <<"TMED","Text">>,
        <<"TOAL","Text">>, <<"TOFN","Text">>, <<"TOLY","Text">>,
        <<"TOPE","Text">>, <<"TOWN","Text">>, <<"TPE1","Text">>,
        <<"TPE2","Text">>, <<"TPE3","Text">>, <<"TPE4","Text">>,
        <<"TPOS","Text">>, <<"TPUB","Text">>, <<"TRCK","Text">>,
        <<"TRSN","Text">>, <<"TRSO","Text">>, <<"TSRC","Text">>,
        <<"TSSE","Text">>, <<"TXXX","Txxx">>, <<"UFID","Ufid">>,
        <<"USER","User">>, <<"USLT","Uslt">>, <<"WCOM","Wcom">>,
        <<"WCOP","Wcop">>, <<"WOAF","Woaf">>, <<"WOAR","Woar">>,
        <<"WOAS","Woas">>, <<"WORS","Wors">>, <<"WPAY","Wpay">>,
        <<"WPUB","Wpub">>, <<"WXXX","Wxxx">>, <<"CHAP","Chap">>,
        <<"CTOC","Ctoc">>, <<"ATXT","Atxt">> }
    \* the arms of ID3v2.3 alone
    v23 ==
      { <<"EQUA","Equa">>, <<"IPLS","Ipls">>, <<"RVAD","Rvad">>,
        <<"TDAT","Text">>, <<"TIME","Text">>, <<"TORY","Text">>,
        <<"TRDA","Text">>, <<"TSIZ","Text">>, <<"TYER","Text">> }
    \* the arms of ID3v2.4 alone
    v24 ==
      { <<"ASPI","TODO">>, <<"EQU2","TODO">>, <<"RVA2","Rva2">>,
        <<"SEEK","TODO">>, <<"SIGN","TODO">>, <<"TDEN","Text">>,
        <<"TDOR","Text">>, <<"TDRC","Text">>, <<"TDRL","Text">>,
        <<"TDTG","Text">>, <<"TIPL","Text">>, <<"TMCL","Text">>,
        <<"TMOO","Text">>, <<"TPRO","Text">>, <<"TSOA","Text">>,
        <<"TSOP","Text">>, <<"TSOT","Text">>, <<"TSST","Text">> }
    \* the arms of every version (unofficial frames)
    any ==
      { <<"RGAD","TODO">>, <<"TCMP","TODO">>, <<"TSO2","TODO">>,
        <<"TSOC","TODO">>, <<"XRVA","TODO">> }
  IN CASE v = "ID3v22" -> v22 \cup any
       [] v = "ID3v23" -> shared \cup v23 \cup any
       [] v = "ID3v24" -> shared \cup v24 \cup any

\* the arm of the match (version, name) that is taken: a variant, "TODO", or
\* "Unknown" for the final arm `_ => panic!("Unknown Frame: {:?}", name)`
Content_dispatch(v, name) ==
  LET rows == { r \in Content_table(v) : r[1] = name } IN
  IF rows = {} THEN "Unknown" ELSE (CHOOSE r \in rows : TRUE)[2]

\* ---- Decoder: a Cursor over the body b, as [pos, fmt]; every step returns
\* [tag, kind, pos, fmt, val] with tag "Ok", "Err" or "Panic"

Decoder_new == [pos |-> 0, fmt |-> "Latin1"]

\* the three outcomes of a call: a value, an Error of some ErrorKind, a panic
Ok(val)    == [tag |-> "Ok", kind |-> "-", val |-> val]
Err(kind)  == [tag |-> "Err", kind |-> kind, val |-> <<>>]
Panic(why) == [tag |-> "Panic", kind |-> why, val |-> <<>>]

\* the outcome r of a step that leaves the cursor at pos
Dec(st, pos, r) ==
  [tag |-> r.tag, kind |-> r.kind, pos |-> pos, fmt |-> st.fmt, val |-> r.val]

\* Decoder::is_empty: position >= len
Decoder_is_empty(b, pos) == pos >= Len(b)

\* Decode for [u8; S]: cursor.read_array().map_err(Into::into).  read_exact
\* fails with UnexpectedEof, which From<IoError> turns into ErrorKind::IO.
\* After the failure the Cursor is at the end of the slice (newer std) or
\* where it was (older std): seeks_end says which std was built in.
decode_array(b, st, S, seeks_end) ==
  IF st.pos + S <= Len(b)
  THEN Dec(st, st.pos + S, Ok(SubSeq(b, st.pos + 1, st.pos + S)))
  ELSE Dec(st, IF seeks_end THEN Len(b) ELSE st.pos, Err("IO"))

\* Slice::until_nul and Slice::until_nul2 are called by the decoder but are not
\* among the sources of types/slice.rs at hand; they follow their description:
\* the prefix up to the first 0x00, or up to the first 0x00 0x00 on an even
\* boundary, and the whole slice if there is no terminator.
\* Slice::until_nul: how many bytes precede the first 0x00 (all, if none)
RECURSIVE Slice_until_nul(_)
Slice_until_nul(s) ==
  IF s = <<>> \/ s[1] = 0 THEN 0 ELSE 1 + Slice_until_nul(Tail(s))

\* Slice::until_nul2: how many bytes precede the first 0x00 0x00 code unit
\* (all, if none)
RECURSIVE Slice_until_nul2(_)
Slice_until_nul2(s) ==
  IF Len(s) < 2 THEN Len(s)
  ELSE IF s[1] = 0 /\ s[2] = 0 THEN 0
  ELSE 2 + Slice_until_nul2(Tail(Tail(s)))

\* Decoder::step(offset, f): f names the function that cuts the view out of
\* the rest of the body; the cursor moves past the view and offset more
Decoder_step(b, st, offset, f) ==
  LET index == Min(st.pos, Len(b))
      rest  == SubSeq(b, index + 1, Len(b))
      keep  == CASE f = "id"         -> Len(rest)
                 [] f = "until_nul"  -> Slice_until_nul(rest)
                 [] f = "until_nul2" -> Slice_until_nul2(rest) IN
  Dec(st, index + keep + offset, Ok(SubSeq(b, index + 1, index + keep)))

\* Decoder::remaining, until_nul, until_nul2
Decoder_remaining(b, st)  == Decoder_step(b, st, 0, "id")
Decoder_until_nul(b, st)  == Decoder_step(b, st, 1, "until_nul")
Decoder_until_nul2(b, st) == Decoder_step(b, st, 2, "until_nul2")

\* ---- text decoding (decode/encoding.rs); a decoded string is the sequence
\* of its code points, the outcome of decoding one is Ok, Err or Panic

BOM_BE == <<254, 255>>
BOM_LE == <<255, 254>>

\* chunks_exact(2).map(convert), convert being u16::from_be_bytes or
\* u16::from_le_bytes: a trailing odd byte is dropped
RECURSIVE utf16_units(_, _)
utf16_units(s, big_endian) ==
  IF Len(s) < 2 THEN <<>>
  ELSE << IF big_endian THEN s[1] * 256 + s[2] ELSE s[2] * 256 + s[1] >>
       \o utf16_units(Tail(Tail(s)), big_endian)

\* char::decode_utf16 and the loop of decode_utf16: the first unpaired
\* surrogate is Err(InvalidFrameData)
RECURSIVE utf16_chars(_, _)
utf16_chars(units, acc) ==
  IF units = <<>> THEN Ok(acc)
  ELSE LET u == units[1]
           is_high_surrogate(x) == x >= 55296 /\ x <= 56319
           is_low_surrogate(x)  == x >= 56320 /\ x <= 57343 IN
       IF ~is_high_surrogate(u) /\ ~is_low_surrogate(u)
       THEN utf16_chars(Tail(units), Append(acc, u))
       ELSE IF is_high_surrogate(u) /\ Len(units) >= 2 /\ is_low_surrogate(units[2])
       THEN utf16_chars(Tail(Tail(units)),
                        Append(acc, 65536 + (u - 55296) * 1024 + (units[2] - 56320)))
       ELSE Err("InvalidFrameData")

decode_utf16(s, big_endian) == utf16_chars(utf16_units(s, big_endian), <<>>)
decode_utf16_be(s) == decode_utf16(s, TRUE)

\* decode_utf16_bom: debug_assert!(slice.len() > 1), then &slice[..2] is
\* matched against the two byte order marks.  With fewer than two bytes the
\* assertion fails in a debug build and the range index fails in every build.
decode_utf16_bom(s) ==
  IF Len(s) < 2 THEN Panic("decode_utf16_bom: range end index 2 out of range")
  ELSE IF SubSeq(s, 1, 2) = BOM_BE THEN decode_utf16_be(SubSeq(s, 3, Len(s)))
  ELSE IF SubSeq(s, 1, 2) = BOM_LE THEN decode_utf16(SubSeq(s, 3, Len(s)), FALSE)
  ELSE Err("InvalidFrameData")

\* core::str::from_utf8 as used by decode_utf8 and utils::is_utf8
RECURSIVE utf8_chars(_, _)
utf8_chars(s, acc) ==
  IF s = <<>> THEN Ok(acc)
  ELSE LET a == s[1]
           is_cont(t, i) == Len(t) >= i /\ t[i] >= 128 /\ t[i] <= 191 IN
       IF a < 128 THEN utf8_chars(Tail(s), Append(acc, a))
       ELSE IF a >= 194 /\ a <= 223 /\ is_cont(s, 2)
       THEN utf8_chars(SubSeq(s, 3, Len(s)),
                       Append(acc, (a - 192) * 64 + (s[2] - 128)))
       ELSE IF a >= 224 /\ a <= 239 /\ is_cont(s, 2) /\ is_cont(s, 3)
               /\ (a = 224 => s[2] >= 160) /\ (a = 237 => s[2] <= 159)
       THEN utf8_chars(SubSeq(s, 4, Len(s)),
                       Append(acc, (a - 224) * 4096 + (s[2] - 128) * 64 + (s[3] - 128)))
       ELSE IF a >= 240 /\ a <= 244 /\ is_cont(s, 2) /\ is_cont(s, 3) /\ is_cont(s, 4)
               /\ (a = 240 => s[2] >= 144) /\ (a = 244 => s[2] <= 143)
       THEN utf8_chars(SubSeq(s, 5, Len(s)),
                       Append(acc, (a - 240) * 262144 + (s[2] - 128) * 4096
                                   + (s[3] - 128) * 64 + (s[4] - 128)))
       ELSE Err("InvalidFrameData")

decode_utf8(s) == utf8_chars(s, <<>>)
is_utf8(s) == utf8_chars(s, <<>>).tag = "Ok"

\* utils::is_latin1: every byte is in 0x20..=0xFF
is_latin1(s) == \A i \in 1..Len(s) : s[i] >= 32

\* decode_latin1, no error.  When is_latin1 holds the result borrows the
\* bytes as a str (from_utf8_unchecked): its code points are those of the
\* bytes read as UTF-8, and where the bytes are not UTF-8 the str is not a
\* valid one, written here as -1 followed by its bytes.  Otherwise every
\* byte becomes the char of the same value.
decode_latin1(s) ==
  IF ~is_latin1(s) THEN Ok(s)
  ELSE IF is_utf8(s) THEN decode_utf8(s)
  ELSE Ok(<<-1>> \o s)

RECURSIVE is_ascii_digit(_)
is_ascii_digit(s) ==
  s = <<>> \/ (s[1] >= 48 /\ s[1] <= 57 /\ is_ascii_digit(Tail(s)))

\* Encoding::decode(self, decoder): the terminator-delimited view is taken
\* first (the cursor moves past the terminator), then it is decoded
Encoding_decode(fmt, b, st) ==
  LET one == Decoder_until_nul(b, st)
      two == Decoder_until_nul2(b, st) IN
  CASE fmt = "Latin1"  -> Dec(st, one.pos, decode_latin1(one.val))
    [] fmt = "Utf16"   -> Dec(st, two.pos, decode_utf16_bom(two.val))
    [] fmt = "Utf16BE" -> Dec(st, two.pos, decode_utf16_be(two.val))
    [] fmt = "Utf8"    -> Dec(st, one.pos, decode_utf8(one.val))

\* Decode for Encoding: one byte, 0x00..0x03, which becomes the format
decode_Encoding(b, st, seeks_end) ==
  LET r == decode_array(b, st, 1, seeks_end) IN
  IF r.tag # "Ok" THEN r
  ELSE IF r.val[1] > 3 THEN Dec(st, r.pos, Err("InvalidFrameData"))
  ELSE LET e == CASE r.val[1] = 0 -> "Latin1" [] r.val[1] = 1 -> "Utf16"
                  [] r.val[1] = 2 -> "Utf16BE" [] r.val[1] = 3 -> "Utf8" IN
       [Dec(st, r.pos, Ok(e)) EXCEPT !.fmt = e]

MIME_PNG  == <<105, 109, 97, 103, 101, 47, 112, 110, 103>>
MIME_JPG  == <<105, 109, 97, 103, 101, 47, 106, 112, 103>>
MIME_JPEG == <<105, 109, 97, 103, 101, 47, 106, 112, 101, 103>>
PNG == <<80, 78, 71>>
JPG == <<74, 80, 71>>

\* ImgType::decode: a Latin-1 string that must be one of three MIME types
ImgType_decode(b, st) ==
  LET r == Encoding_decode("Latin1", b, st) IN
  IF r.val = MIME_PNG THEN Dec(st, r.pos, Ok("Png"))
  ELSE IF r.val \in {MIME_JPG, MIME_JPEG} THEN Dec(st, r.pos, Ok("Jpg"))
  ELSE Dec(st, r.pos, Err("InvalidFrameData"))

\* ImgType::decode_v2: three bytes that must be "PNG" or "JPG"
ImgType_decode_v2(b, st, seeks_end) ==
  LET r == decode_array(b, st, 3, seeks_end) IN
  IF r.tag # "Ok" THEN r
  ELSE IF r.val = PNG THEN Dec(st, r.pos, Ok("Png"))
  ELSE IF r.val = JPG THEN Dec(st, r.pos, Ok("Jpg"))
  ELSE Dec(st, r.pos, Err("InvalidFrameData"))

\* PicType::decode: one byte, 0x00..0x14
PicType_decode(b, st, seeks_end) ==
  LET r == decode_array(b, st, 1, seeks_end) IN
  IF r.tag # "Ok" THEN r
  ELSE IF r.val[1] <= 20 THEN Dec(st, r.pos, Ok(r.val[1]))
  ELSE Dec(st, r.pos, Err("InvalidFrameData"))

\* impl_stack_string!: S bytes that must pass the check named by @check
stack_string_decode(b, st, S, check, seeks_end) ==
  LET r == decode_array(b, st, S, seeks_end) IN
  IF r.tag # "Ok" THEN r
  ELSE IF CASE check = "is_utf8"        -> is_utf8(r.val)
            [] check = "is_ascii_digit" -> is_ascii_digit(r.val)
  THEN r ELSE Dec(st, r.pos, Err("InvalidFrameData"))

\* TextContent::decode: one string, then strings until the decoder is empty
RECURSIVE TextContent_list(_, _, _)
\* (the outcome r of a string is bound through a one-element set, so that it
\* is computed once and not once for every use further down the list)
TextContent_list(b, st, list) ==
  IF Decoder_is_empty(b, st.pos) THEN Dec(st, st.pos, Ok(list))
  ELSE LET push(r) ==
             IF r.tag # "Ok" THEN r
             ELSE TextContent_list(b, [pos |-> r.pos, fmt |-> r.fmt], Append(list, r.val))
       IN CHOOSE out \in { push(r) : r \in {Encoding_decode(st.fmt, b, st)} } : TRUE

TextContent_decode(b, st) ==
  LET first(r) ==
        IF r.tag # "Ok" THEN r
        ELSE IF Decoder_is_empty(b, r.pos) THEN Dec(st, r.pos, Ok(<<r.val>>))
        ELSE TextContent_list(b, [pos |-> r.pos, fmt |-> r.fmt], <<r.val>>)
  IN CHOOSE out \in { first(r) : r \in {Encoding_decode(st.fmt, b, st)} } : TRUE

\* one field of a frame record, by the type of the field
decode_field(ty, b, st, seeks_end) ==
  CASE ty = "Encoding"    -> decode_Encoding(b, st, seeks_end)
    [] ty = "ImgType"     -> ImgType_decode(b, st)
    [] ty = "ImgTypeV2"   -> ImgType_decode_v2(b, st, seeks_end)
    [] ty = "PicType"     -> PicType_decode(b, st, seeks_end)
    [] ty = "Language"    -> stack_string_decode(b, st, 3, "is_utf8", seeks_end)
    [] ty = "Date"        -> stack_string_decode(b, st, 8, "is_ascii_digit", seeks_end)
    [] ty = "Cow<str>"    -> Encoding_decode(st.fmt, b, st)
    [] ty = "@latin1"     -> Encoding_decode("Latin1", b, st)
    [] ty = "TextContent" -> TextContent_decode(b, st)
    [] ty = "Cow<Slice>"  -> Decoder_remaining(b, st)
    [] ty = "u8"          -> decode_array(b, st, 1, seeks_end)
    [] ty = "u32"         -> decode_array(b, st, 4, seeks_end)

\* the fields of the frame records, in declaration order (the derived
\* Decode reads them in that order, each with `?`)
Frame_fields(v, variant) ==
  CASE variant = "Text" -> <<"Encoding", "TextContent">>
    [] variant = "Apic" -> IF v = "ID3v22"
                           THEN <<"Encoding", "ImgTypeV2", "PicType", "Cow<str>", "Cow<Slice>">>
                           ELSE <<"Encoding", "ImgType", "PicType", "Cow<str>", "Cow<Slice>">>
    [] variant = "Comm" -> <<"Encoding", "Language", "Cow<str>", "Cow<str>">>
    [] variant = "Owne" -> <<"Encoding", "@latin1", "Date", "Cow<str>">>
    [] variant = "Rbuf" -> <<"u32", "u8", "u32">>
    [] variant = "Poss" -> <<"Cow<Slice>">>

\* the derived Decode of a record: field after field, stopping at the first
\* error; the result carries the decoded fields (the outcome r of a field is
\* bound through a one-element set, so that it is computed once)
RECURSIVE decode_fields(_, _, _, _, _)
decode_fields(tys, b, st, acc, seeks_end) ==
  IF tys = <<>> THEN Dec(st, st.pos, Ok(acc))
  ELSE LET next(r) ==
             IF r.tag # "Ok" THEN r
             ELSE decode_fields(Tail(tys), b, [pos |-> r.pos, fmt |-> r.fmt],
                                Append(acc, r.val), seeks_end)
       IN CHOOSE out \in { next(r) : r \in {decode_field(tys[1], b, st, seeks_end)} } : TRUE

\* a result of Content::decode
NoContent == [tag |-> "-", kind |-> "-", variant |-> "-", fields |-> <<>>]

\* Content::decode(version, name, slice): the match on (version, name), then
\* assert!(decoder.is_empty()), then the result of the match
Content_decode(v, name, b, seeks_end) ==
  LET variant == Content_dispatch(v, name) IN
  IF variant = "Unknown" THEN [NoContent EXCEPT !.tag = "Panic", !.kind = "Unknown Frame"]
  ELSE IF variant = "TODO" THEN [NoContent EXCEPT !.tag = "Panic", !.kind = "TODO: Decode"]
  ELSE LET r == decode_fields(Frame_fields(v, variant), b, Decoder_new, <<>>, seeks_end) IN
       IF r.tag = "Panic" THEN [NoContent EXCEPT !.tag = "Panic", !.kind = r.kind]
       ELSE IF ~Decoder_is_empty(b, r.pos) THEN [NoContent EXCEPT !.tag = "Panic", !.kind = "assert!(decoder.is_empty())"]
       ELSE [tag |-> r.tag, kind |-> r.kind, variant |-> variant, fields |-> r.val]

\* ---- one call of Content::decode

\* frame identifiers given to Content::decode: frames of the records above,
\* frames whose arm is a TODO, and valid identifiers that have no arm for the
\* version ("ZZZ", "T00", "XXXX" for none; "ASPI" has an arm for ID3v2.4
\* alone and "EQUA" for ID3v2.3 alone)
ContentNames(v) ==
  IF v = "ID3v22" THEN {"TAL", "PIC", "COM", "BUF", "CRM", "ZZZ", "T00"}
  ELSE {"TALB", "APIC", "COMM", "OWNE", "RBUF", "POSS", "TCMP", "ASPI", "XXXX"}
       \cup (IF v = "ID3v24" THEN {"EQUA"} ELSE {})

\* frame bodies: every byte string up to MaxBody over four bytes, and picture
\* bodies (encoding, image format, picture type, then a short tail)
ContentBodies(v) ==
  SeqsUpTo({0, 1, 254, 255}, MaxBody)
  \cup { <<enc>> \o (IF v = "ID3v22" THEN PNG ELSE MIME_PNG \o <<0>>) \o <<pt>> \o tail :
           enc \in {0, 1}, pt \in {0, 20, 21, 255}, tail \in SeqsUpTo({0, 1}, MaxPicTail) }

InitContentIdle ==
  /\ c_version = "ID3v22" /\ c_name = "" /\ c_body = <<>>
  /\ c_seeks_end = FALSE /\ c_result = NoContent

InitContent ==
  /\ c_version \in Versions
  /\ c_name \in ContentNames(c_version)
  /\ c_body \in ContentBodies(c_version)
  /\ c_seeks_end \in BOOLEAN
  /\ c_result = NoContent

\* the call Content::decode(version, name, Slice::new(c_body))
DecodeContent ==
  /\ c_result.tag = "-"
  /\ c_result' = Content_decode(c_version, c_name, c_body, c_seeks_end)
  /\ UNCHANGED <<c_version, c_name, c_body, c_seeks_end>>

-----------------------------------------------------------------------------
(* ChapIter: the sub-frames of a CHAP frame (content/frames/chap.rs)        *)

\* Decoder::decode_frame(version): DynFrame::from_slice on cursor.get_ref(),
\* the whole slice of the decoder, and on Ok(Some(frame)) the position moves
\* on by frame.total_size()
Decoder_decode_frame(v, b, pos, checks) ==
  LET r == DynFrame_from_slice(v, b, [start |-> 0, len |-> Len(b)], checks) IN
  [tag |-> r.tag, kind |-> r.kind, frame |-> r.frame,
   pos |-> IF r.tag = "Some" THEN pos + r.frame.total_size ELSE pos]

\* sub-frame data: up to MaxParts pieces, each a well-formed ID3v2.4 or
\* ID3v2.3 frame, NUL padding or a piece that is no frame
ChapChunks ==
  WellFormedFrames("ID3v24") \cup WellFormedFrames("ID3v23")
  \cup { <<84, 73, 84, 50,  0, 0, 0, 1,  0, 0,  65>> }     \* TIT2, one byte
  \cup NulChunks \cup JunkChunks("ID3v24")

InitChapIdle ==
  /\ ch_parts = <<>> /\ ch_body = <<>> /\ ch_pos = 0
  /\ ch_yielded = <<>> /\ ch_last = "-" /\ ch_calls = 0 /\ ch_pc = "run"

\* chap.frames(): ChapIter::new(self.sub_frames()), a Decoder at position 0
InitChap ==
  /\ ch_parts \in SeqsUpTo(ChapChunks, MaxParts)
  /\ ch_body = Concat(ch_parts)
  /\ ch_pos = 0
  /\ ch_yielded = <<>> /\ ch_last = "-" /\ ch_calls = 0 /\ ch_pc = "run"

\* ChapIter::next: None when the decoder is empty; else the frame that
\* decode_frame(ID3v24) gives, and when that is not Ok(Some(frame)) whatever
\* decode_frame(ID3v23).transpose() gives
ChapNext ==
  /\ ch_pc = "run"
  /\ ch_calls < MaxCalls
  /\ ch_calls' = ch_calls + 1
  /\ IF Decoder_is_empty(ch_body, ch_pos)
     THEN /\ ch_last' = "None"
          /\ UNCHANGED <<ch_pos, ch_yielded, ch_pc>>
     ELSE LET r4 == Decoder_decode_frame("ID3v24", ch_body, ch_pos, overflow_checks)
              r3 == Decoder_decode_frame("ID3v23", ch_body, ch_pos, overflow_checks)
              r  == IF r4.tag \in {"Some", "Panic"} THEN r4 ELSE r3 IN
          CASE r.tag = "Some" ->
                 /\ ch_pos' = r.pos
                 /\ ch_yielded' = Append(ch_yielded, OkItem(0, r.frame, ch_body))
                 /\ ch_last' = "Some"
                 /\ ch_pc' = ch_pc
            [] r.tag = "None" ->
                 /\ ch_last' = "None"
                 /\ UNCHANGED <<ch_pos, ch_yielded, ch_pc>>
            [] r.tag = "Err" ->
                 /\ ch_yielded' = Append(ch_yielded, ErrItem(0, r.kind))
                 /\ ch_last' = "Some"
                 /\ UNCHANGED <<ch_pos, ch_pc>>
            [] r.tag = "Panic" ->
                 /\ ch_pc' = "abort"
                 /\ UNCHANGED <<ch_pos, ch_yielded, ch_last>>
  /\ UNCHANGED <<ch_parts, ch_body>>

-----------------------------------------------------------------------------
(* Single calls of the functions without state (utils.rs, types/slice.rs,   *)
(* decode/encoding.rs, traits/into.rs)                                      *)

\* utils::decode_u35_unsync: five bytes or-ed into a u32 at shifts 28, 21, 14,
\* 7 and 0; what the shift by 28 moves past bit 31 is lost.  The u32 is kept
\* as two 16-bit limbs.
decode_u35_unsync(b) ==
  [hi |-> BitOr((b[1] % 16) * 4096,
                BitOr(b[2] * 32, (b[3] * 16384) \div Limb)),
   lo |-> BitOr(BitOr((b[3] * 16384) % Limb, b[4] * 128), b[5])]

\* the byte arrays handed to the three decoders: 7-bit groups for the two
\* unsynchronized decoders, whole bytes for decode_u24
IntInputs(fn) ==
  CASE fn = "decode_u35_unsync" -> [1..5 -> {0, 1, 15, 16, 127}]
    [] fn = "decode_u28_unsync" -> [1..4 -> {0, 1, 64, 127}]
    [] fn = "decode_u24"        -> [1..3 -> {0, 1, 128, 255}]

InitCallIdle == p_fn = "-" /\ p_arg = <<>> /\ p_ret = <<>> /\ p_done = FALSE

\* ---- Content::decode2 and IntoOwned

\* utils::decompress: without the `zlib` feature it panics; with it the
\* ZlibDecoder, which is not part of this crate, answers with the inflated
\* bytes or with an error (`inflated` is that answer)
decompress(zlib, inflated) ==
  IF ~zlib THEN Panic("Enable zlib feature to use ZLIB decompression.")
  ELSE IF inflated.ok THEN Ok(inflated.bytes) ELSE Err("IO")

\* IntoOwned for Content
Content_into_owned == Panic("Content::into_owned")

\* Content::decode2(version, name, slice, size): decompress(..)?, then
\* Content::decode(..)? on the inflated bytes, then Ok(content.into_owned())
Content_decode2(zlib, v, name, inflated, seeks_end) ==
  LET bytes == decompress(zlib, inflated) IN
  IF bytes.tag # "Ok" THEN [NoContent EXCEPT !.tag = bytes.tag, !.kind = bytes.kind]
  ELSE LET content == Content_decode(v, name, bytes.val, seeks_end) IN
       IF content.tag # "Ok" THEN content
       ELSE [NoContent EXCEPT !.tag = Content_into_owned.tag,
                              !.kind = Content_into_owned.kind]

\* the compressed frames given to decode2: the build with or without `zlib`,
\* a text frame or an identifier without an arm, the decompressor's answer
Decode2Inputs ==
  [zlib : BOOLEAN, version : {"ID3v23", "ID3v24"}, name : {"TCON", "XXXX"},
   inflated : [ok : BOOLEAN, bytes : SeqsUpTo({0, 1, 65}, MaxInflated)],
   seeks_end : BOOLEAN]

\* content values: a value has a type, and by type the Cow's state and bytes
\* or the values inside
Value(ty, owned, data, items) ==
  [ty |-> ty, owned |-> owned, data |-> data, items |-> items]

Cows == { Value("Cow", o, d, <<>>) : o \in BOOLEAN, d \in SeqsUpTo({65, 66}, MaxCow) }

\* Option<Cow>, Vec<Cow>, TextContent (Text(Cow) or List(Vec<Cow>)), and the
\* Content sum holding a text frame
Values ==
  LET vecs  == { Value("Vec", FALSE, <<>>, i) : i \in SeqsUpTo(Cows, MaxVec) }
      texts == { Value("TextContent", FALSE, <<>>, <<i>>) : i \in Cows \cup vecs } IN
  Cows \cup vecs \cup texts
    \cup { Value("Option", FALSE, <<>>, i) : i \in SeqsUpTo(Cows, 1) }
    \cup { Value("Content", FALSE, <<>>, <<i>>) : i \in texts }

\* into_owned: Cow::Owned(Cow::into_owned(self)) for a Cow, into_owned of what
\* is inside for Option, Vec and TextContent, and the panic for Content
RECURSIVE into_owned(_)
into_owned(v) ==
  CASE v.ty = "Cow" -> Ok([v EXCEPT !.owned = TRUE])
    [] v.ty = "Content" -> Content_into_owned
    [] OTHER ->
       LET inner == [i \in 1..Len(v.items) |-> into_owned(v.items[i])] IN
       IF \E i \in 1..Len(inner) : inner[i].tag = "Panic"
       THEN Content_into_owned
       ELSE Ok([v EXCEPT !.items = [i \in 1..Len(inner) |-> inner[i].val]])

\* ---- Slice::skip, Slice::take, Slice::view

\* a slice over the whole of some bytes, a start and a count
SliceInputs ==
  [bytes : SeqsUpTo({7, 9}, MaxSlice), start : 0..MaxSlice + 1, count : 0..MaxSlice + 1]

\* what one call returns: the view and "none", or the fault of the skip in
\* it.  get_unchecked outside the slice is undefined behaviour: the view it
\* leaves is any of the empty view and a view past the end of the bytes.
Slice_call(fn, s, start, count, checks) ==
  LET n == IF fn = "Slice::view" THEN start ELSE count
      fault == IF fn = "Slice::take" THEN "none" ELSE slice_skip_fault(s, n, checks)
      view == CASE fn = "Slice::skip" -> slice_skip(s, count)
                [] fn = "Slice::take" -> slice_take(s, count)
                [] fn = "Slice::view" -> slice_view(s, start, count) IN
  CASE fault = "none"  -> { [fault |-> "none", slice |-> view] }
    [] fault = "panic" -> { [fault |-> "panic", slice |-> Slice_empty] }
    [] fault = "undefined" ->
         { [fault |-> "undefined", slice |-> x] :
             x \in {Slice_empty, [start |-> s.start + n, len |-> 1]} }

\* ---- decode_latin1

\* Latin-1 strings before their terminator: control bytes, ASCII, and bytes
\* from 0x80 on, among them C3 A9, which is also the UTF-8 of U+00E9
Latin1Inputs == SeqsUpTo({9, 65, 169, 195, 233}, MaxLatin1)

CallInputs(fn) ==
  CASE fn \in {"decode_u35_unsync", "decode_u28_unsync", "decode_u24"} -> IntInputs(fn)
    [] fn = "Content::decode2" -> Decode2Inputs
    [] fn = "into_owned" -> Values
    [] fn = "decode_latin1" -> Latin1Inputs
    [] fn \in {"Slice::skip", "Slice::take", "Slice::view"} -> SliceInputs

InitCall ==
  /\ p_fn \in {"decode_u35_unsync", "decode_u28_unsync", "decode_u24",
               "Content::decode2", "into_owned",
               "Slice::skip", "Slice::take", "Slice::view", "decode_latin1"}
  /\ p_arg \in CallInputs(p_fn)
  /\ p_ret = <<>> /\ p_done = FALSE

\* one call of Content::decode2 for a frame whose COMPRESSION flag is set
CallDecode2 ==
  /\ ~p_done /\ p_fn = "Content::decode2"
  /\ p_ret' = Content_decode2(p_arg.zlib, p_arg.version, p_arg.name,
                              p_arg.inflated, p_arg.seeks_end)
  /\ p_done' = TRUE
  /\ UNCHANGED <<p_fn, p_arg>>

\* one call of into_owned
CallIntoOwned ==
  /\ ~p_done /\ p_fn = "into_owned"
  /\ p_ret' = into_owned(p_arg)
  /\ p_done' = TRUE
  /\ UNCHANGED <<p_fn, p_arg>>

\* one call of Slice::skip, Slice::take or Slice::view on a slice over the
\* whole of the bytes
CallSlice ==
  /\ ~p_done /\ p_fn \in {"Slice::skip", "Slice::take", "Slice::view"}
  /\ p_ret' \in Slice_call(p_fn, [start |-> 0, len |-> Len(p_arg.bytes)],
                           p_arg.start, p_arg.count, overflow_checks)
  /\ p_done' = TRUE
  /\ UNCHANGED <<p_fn, p_arg>>

\* one call of decode_latin1
CallDecodeLatin1 ==
  /\ ~p_done /\ p_fn = "decode_latin1"
  /\ p_ret' = decode_latin1(p_arg)
  /\ p_done' = TRUE
  /\ UNCHANGED <<p_fn, p_arg>>

\* one call of decode_u35_unsync, decode_u28_unsync or decode_u24
CallDecodeInt ==
  /\ ~p_done
  /\ p_fn \in {"decode_u35_unsync", "decode_u28_unsync", "decode_u24"}
  /\ p_ret' = CASE p_fn = "decode_u35_unsync" -> decode_u35_unsync(p_arg)
                [] p_fn = "decode_u28_unsync" -> u32(decode_u28_unsync(p_arg))
                [] p_fn = "decode_u24"        -> u32(decode_u24(p_arg))
  /\ p_done' = TRUE
  /\ UNCHANGED <<p_fn, p_arg>>

-----------------------------------------------------------------------------
(* SyltIter: the lyrics of a SYLT frame (content/frames/sylt.rs)            *)

\* Decode for Lyric: the text in the decoder's format, then the u32 time
Lyric_decode(b, st, seeks_end) == decode_fields(<<"Cow<str>", "u32">>, b, st, <<>>, seeks_end)

\* binary data is assembled from entries (a text, its terminator, four bytes
\* of time; the last with an empty text) and from bytes that are no entry
SyltChunks == { <<65, 0, 0, 0, 0, 1>>, <<66, 67, 0, 0, 0, 0, 2>>, <<0, 0, 0, 0, 3>>,
                <<65>>, <<0>> }

InitSyltIdle ==
  /\ sy_fmt = "Latin1" /\ sy_parts = <<>> /\ sy_data = <<>> /\ sy_pos = 0
  /\ sy_seeks_end = FALSE /\ sy_yielded = <<>> /\ sy_last = "-" /\ sy_calls = 0
  /\ sy_pc = "run"

\* Sylt::lyrics(): SyltIter::new(self.text_encoding, self.binary_data())
InitSylt ==
  /\ sy_fmt \in {"Latin1", "Utf16", "Utf16BE", "Utf8"}
  /\ sy_parts \in SeqsUpTo(SyltChunks, MaxLyrics)
  /\ sy_data = Concat(sy_parts)
  /\ sy_seeks_end \in BOOLEAN
  /\ sy_pos = 0 /\ sy_yielded = <<>> /\ sy_last = "-" /\ sy_calls = 0 /\ sy_pc = "run"

\* SyltIter::next: `if self.inner.is_empty() { Some(self.inner.decode()) }
\* else { None }`
SyltNext ==
  /\ sy_pc = "run"
  /\ sy_calls < MaxCalls
  /\ sy_calls' = sy_calls + 1
  /\ IF Decoder_is_empty(sy_data, sy_pos)
     THEN LET r == Lyric_decode(sy_data, [pos |-> sy_pos, fmt |-> sy_fmt], sy_seeks_end) IN
          IF r.tag = "Panic"
          THEN /\ sy_pc' = "abort"
               /\ UNCHANGED <<sy_pos, sy_yielded, sy_last>>
          ELSE /\ sy_pos' = r.pos
               /\ sy_yielded' = Append(sy_yielded, [tag |-> r.tag, kind |-> r.kind, val |-> r.val])
               /\ sy_last' = "Some"
               /\ sy_pc' = sy_pc
     ELSE /\ sy_last' = "None"
          /\ UNCHANGED <<sy_pos, sy_yielded, sy_pc>>
  /\ UNCHANGED <<sy_fmt, sy_parts, sy_data, sy_seeks_end>>

-----------------------------------------------------------------------------
(* Specifications *)

\* Unsync read to the end with buffers larger than the stream
InitUnsyncWhole ==
  /\ overflow_checks = FALSE
  /\ InitUnsync /\ InitIterIdle /\ InitHeaderIdle /\ InitTagIdle /\ InitFrameIdle
  /\ InitContentIdle
  /\ InitChapIdle
  /\ InitCallIdle
  /\ InitSyltIdle
NextUnsyncWhole == ReadWhole /\ UNCHANGED <<overflow_checks, iterVars, headerVars, tagVars, frameVars, contentVars, chapVars, callVars, syltVars>>
SpecUnsyncWhole == InitUnsyncWhole /\ [][NextUnsyncWhole]_vars

\* Unsync read to the end with any sequence of buffer sizes
NextUnsyncChunked == ReadChunk /\ UNCHANGED <<overflow_checks, iterVars, headerVars, tagVars, frameVars, contentVars, chapVars, callVars, syltVars>>
SpecUnsyncChunked == InitUnsyncWhole /\ [][NextUnsyncChunked]_vars

\* Frame iteration over a tag body
InitIterSpec ==
  /\ overflow_checks \in BOOLEAN
  /\ InitIter /\ InitUnsyncIdle /\ InitHeaderIdle /\ InitTagIdle /\ InitFrameIdle
  /\ InitContentIdle
  /\ InitChapIdle
  /\ InitCallIdle
  /\ InitSyltIdle
NextIter == IterNext /\ UNCHANGED <<overflow_checks, unsyncVars, headerVars, tagVars, frameVars, contentVars, chapVars, callVars, syltVars>>
SpecIter == InitIterSpec /\ [][NextIter]_vars

\* Header::from_reader
InitHeaderSpec ==
  /\ overflow_checks = FALSE
  /\ InitHeader /\ InitUnsyncIdle /\ InitIterIdle /\ InitTagIdle /\ InitFrameIdle
  /\ InitContentIdle
  /\ InitChapIdle
  /\ InitCallIdle
  /\ InitSyltIdle
NextHeader == ParseHeader /\ UNCHANGED <<overflow_checks, unsyncVars, iterVars, tagVars, frameVars, contentVars, chapVars, callVars, syltVars>>
SpecHeader == InitHeaderSpec /\ [][NextHeader]_vars

\* Tag::from_reader
InitTagSpec ==
  /\ overflow_checks \in BOOLEAN
  /\ InitTag /\ InitUnsyncIdle /\ InitIterIdle /\ InitHeaderIdle /\ InitFrameIdle
  /\ InitContentIdle
  /\ InitChapIdle
  /\ InitCallIdle
  /\ InitSyltIdle
NextTag ==
  \/ TagReadHeader /\ UNCHANGED <<overflow_checks, unsyncVars, iterVars, headerVars, frameVars, contentVars, chapVars, callVars, syltVars>>
  \/ TagReadBody /\ UNCHANGED <<overflow_checks, unsyncVars, iterVars, headerVars, frameVars, contentVars, chapVars, callVars, syltVars>>
SpecTag == InitTagSpec /\ [][NextTag]_vars

\* DynFrame::from_slice on one frame
InitFrameSpec ==
  /\ overflow_checks \in BOOLEAN
  /\ InitFrame /\ InitUnsyncIdle /\ InitIterIdle /\ InitHeaderIdle /\ InitTagIdle
  /\ InitContentIdle
  /\ InitChapIdle
  /\ InitCallIdle
  /\ InitSyltIdle
NextFrame == ParseFrame /\ UNCHANGED <<overflow_checks, unsyncVars, iterVars, headerVars, tagVars, contentVars, chapVars, callVars, syltVars>>
SpecFrame == InitFrameSpec /\ [][NextFrame]_vars

\* Content::decode on one frame body
InitContentSpec ==
  /\ overflow_checks = FALSE
  /\ InitContent /\ InitUnsyncIdle /\ InitIterIdle /\ InitHeaderIdle /\ InitTagIdle
  /\ InitFrameIdle
  /\ InitChapIdle
  /\ InitCallIdle
  /\ InitSyltIdle
NextContent == DecodeContent /\ UNCHANGED <<overflow_checks, unsyncVars, iterVars, headerVars, tagVars, frameVars, chapVars, callVars, syltVars>>
SpecContent == InitContentSpec /\ [][NextContent]_vars

\* Chap::frames() over the sub-frame data of a CHAP frame
InitChapSpec ==
  /\ overflow_checks \in BOOLEAN
  /\ InitChap /\ InitUnsyncIdle /\ InitIterIdle /\ InitHeaderIdle /\ InitTagIdle
  /\ InitFrameIdle /\ InitContentIdle
  /\ InitCallIdle
  /\ InitSyltIdle
NextChap == ChapNext /\ UNCHANGED <<overflow_checks, unsyncVars, iterVars, headerVars, tagVars, frameVars, contentVars, callVars, syltVars>>
SpecChap == InitChapSpec /\ [][NextChap]_vars

\* Single calls of the functions without state
InitCallSpec ==
  /\ overflow_checks \in BOOLEAN
  /\ InitCall /\ InitUnsyncIdle /\ InitIterIdle /\ InitHeaderIdle /\ InitTagIdle
  /\ InitFrameIdle /\ InitContentIdle /\ InitChapIdle
  /\ InitSyltIdle
NextCall ==
  \/ CallDecodeInt /\ UNCHANGED <<overflow_checks, unsyncVars, iterVars, headerVars, tagVars, frameVars, contentVars, chapVars, syltVars>>
  \/ CallDecode2 /\ UNCHANGED <<overflow_checks, unsyncVars, iterVars, headerVars, tagVars, frameVars, contentVars, chapVars, syltVars>>
  \/ CallIntoOwned /\ UNCHANGED <<overflow_checks, unsyncVars, iterVars, headerVars, tagVars, frameVars, contentVars, chapVars, syltVars>>
  \/ CallSlice /\ UNCHANGED <<overflow_checks, unsyncVars, iterVars, headerVars, tagVars, frameVars, contentVars, chapVars, syltVars>>
  \/ CallDecodeLatin1 /\ UNCHANGED <<overflow_checks, unsyncVars, iterVars, headerVars, tagVars, frameVars, contentVars, chapVars, syltVars>>
SpecCall == InitCallSpec /\ [][NextCall]_vars

\* The lyrics iterator of a SYLT frame
InitSyltSpec ==
  /\ overflow_checks = FALSE
  /\ InitSylt /\ InitUnsyncIdle /\ InitIterIdle /\ InitHeaderIdle /\ InitTagIdle
  /\ InitFrameIdle /\ InitContentIdle /\ InitChapIdle /\ InitCallIdle
NextSylt == SyltNext /\ UNCHANGED <<overflow_checks, unsyncVars, iterVars, headerVars, tagVars, frameVars, contentVars, chapVars, callVars>>
SpecSylt == InitSyltSpec /\ [][NextSylt]_vars

Init == InitIterSpec
Next == NextIter
Spec == SpecIter

-----------------------------------------------------------------------------
(* Properties of the frame iterator *)

\* every piece of the body is a well-formed frame: no padding, no junk
AllWellFormed == \A i \in 1..Len(parts) : parts[i] \in WellFormedFrames(version)

\* a valid tag: well-formed frames followed by zero or more NUL bytes
ValidTag ==
  \E k \in 0..Len(parts) :
    /\ \A i \in 1..k : parts[i] \in WellFormedFrames(version)
    /\ \A i \in (k + 1)..Len(parts) : parts[i] \in NulChunks

OkCount == Cardinality({i \in 1..Len(yielded) : yielded[i].kind = "Ok"})
HasErr  == \E i \in 1..Len(yielded) : yielded[i].kind = "Err"

\* C1: over a body that is exactly N >= 0 well-formed frames and nothing
\* else, the iteration yields exactly N items, all Ok, and then None.
C1_ExactlyNFrames ==
  (AllWellFormed /\ last = "None") =>
     /\ Len(yielded) = Len(parts)
     /\ \A i \in 1..Len(yielded) : yielded[i].kind = "Ok"

\* C2: when the bytes at the iterator's position start with 0x00, the next
\* call returns None and yields no item.
C2_NulStopsSilently ==
  [][(buffer.len > 0 /\ body[buffer.start + 1] = 0)
       => (last' = "None" /\ yielded' = yielded)]_vars

\* C3: a frame-header parse failure is surfaced as exactly one Err item; once
\* an Err item has been yielded every later call returns None, and the items
\* yielded before are never changed.
C3_ErrorOnceThenStop ==
  [][/\ IsPrefix(yielded, yielded')
     /\ HasErr => (last' = "None" /\ yielded' = yielded)
     /\ (buffer.len > 0 /\
         DynFrame_from_slice(version, body, buffer, overflow_checks).tag = "Err")
          => /\ Len(yielded') = Len(yielded) + 1
             /\ yielded'[Len(yielded')].kind = "Err"
             /\ yielded'[Len(yielded')].err =
                  DynFrame_from_slice(version, body, buffer, overflow_checks).kind
    ]_vars

\* a frame was yielded, then a header failed to parse in the middle of the
\* body, and a later call returned None
C3_Witness ==
  /\ Len(yielded) >= 2
  /\ yielded[1].kind = "Ok"
  /\ yielded[Len(yielded)].kind = "Err"
  /\ yielded[Len(yielded)].err = "InvalidFrameId"
  /\ yielded[Len(yielded)].off + 1 < Len(body)
  /\ last = "None"

\* header_size(version) as the claim states it
C4_header_size(v) == IF v = "ID3v22" THEN 6 ELSE 10

\* the sum of header_size + descriptor over the items yielded before the k-th
RECURSIVE C4_offset(_)
C4_offset(k) ==
  IF k <= 1 THEN 0
  ELSE C4_offset(k - 1) + C4_header_size(version) + yielded[k - 1].descriptor

\* C4: the k-th Ok frame is the frame parsed at the body offset that is the
\* sum of total_size() = header_size(version) + descriptor of the k-1 frames
\* before it; over a body of well-formed frames the k-th frame yielded is the
\* k-th frame of the body and none is left out.
C4_FileOrder ==
  /\ \A k \in 1..Len(yielded) : yielded[k].kind = "Ok" =>
       /\ yielded[k].off = C4_offset(k)
       /\ yielded[k].total_size = C4_header_size(version) + yielded[k].descriptor
       /\ LET r == DynFrame_from_slice(version, body,
                     [start |-> yielded[k].off, len |-> Len(body) - yielded[k].off],
                     overflow_checks)
          IN  r.tag = "Some" /\ OkItem(yielded[k].off, r.frame, body) = yielded[k]
       /\ AllWellFormed =>
            /\ k <= Len(parts)
            /\ yielded[k].off + yielded[k].total_size <= Len(body)
            /\ SubSeq(body, yielded[k].off + 1,
                      yielded[k].off + yielded[k].total_size) = parts[k]
  /\ (AllWellFormed /\ last = "None") => OkCount = Len(parts)

\* three frames were yielded, the third from an offset past the first two
C4_Witness ==
  /\ Len(yielded) >= 3
  /\ \A k \in 1..3 : yielded[k].kind = "Ok"
  /\ yielded[3].off > yielded[2].off /\ yielded[2].off > 0

RECURSIVE SumTotalSize(_)
SumTotalSize(items) ==
  IF items = <<>> THEN 0
  ELSE (IF Head(items).kind = "Ok" THEN Head(items).total_size ELSE 0)
       + SumTotalSize(Tail(items))

\* C5: over a valid tag the yielded frames are a prefix of the body: the sum
\* of their total_size() is at most the body length, and once the iteration
\* has ended every byte after that prefix is 0x00.
C5_YieldedPrefix ==
  ValidTag =>
    /\ SumTotalSize(yielded) <= Len(body)
    /\ last = "None" =>
         AllNul(SubSeq(body, SumTotalSize(yielded) + 1, Len(body)))

\* a valid tag of two frames and some padding, iterated to the end
C5_Witness ==
  /\ ValidTag
  /\ last = "None"
  /\ OkCount >= 2
  /\ SumTotalSize(yielded) < Len(body)

-----------------------------------------------------------------------------
(* Properties of the unsynchronisation reader *)

\* the logical transform: every 0x00 whose preceding source byte is 0xFF is
\* removed, every other byte is kept
RECURSIVE ElideFrom(_, _)
ElideFrom(s, i) ==
  IF i > Len(s) THEN <<>>
  ELSE (IF i > 1 /\ s[i - 1] = 255 /\ s[i] = 0 THEN <<>> ELSE <<s[i]>>)
       \o ElideFrom(s, i + 1)
Elide(s) == ElideFrom(s, 1)

\* C6: reading to end-of-stream yields exactly the input without the 0x00
\* bytes that follow a 0xFF: what was read so far is a prefix of that, and
\* when a read reports the end it is all of it.
C6_ElidesEveryPair ==
  u_reads >= 1 =>
    /\ IsPrefix(u_out, Elide(u_src))
    /\ u_ret = 0 => u_out = Elide(u_src)

\* C7: whatever the buffer sizes of the successive reads, the bytes returned
\* up to end-of-stream are those of one read with a buffer larger than the
\* whole stream.
C7_ChunkingIndependent ==
  u_ret = 0 => u_out = unsync_read(u_src, 0, 0, FALSE, Len(u_src) + 1).data

\* sync as the claim words it: 0x00 after every 0xFF that would otherwise
\* precede a byte with the top bit set
RECURSIVE C8_sync_topbit_from(_, _)
C8_sync_topbit_from(b, i) ==
  IF i > Len(b) THEN <<>>
  ELSE (IF b[i] = 255 /\ i < Len(b) /\ b[i + 1] >= 128 THEN <<255, 0>> ELSE <<b[i]>>)
       \o C8_sync_topbit_from(b, i + 1)

\* sync that also protects a 0x00 that follows a 0xFF
RECURSIVE C8_sync_from(_, _)
C8_sync_from(b, i) ==
  IF i > Len(b) THEN <<>>
  ELSE (IF b[i] = 255 /\ i < Len(b) /\ (b[i + 1] >= 128 \/ b[i + 1] = 0)
        THEN <<255, 0>> ELSE <<b[i]>>)
       \o C8_sync_from(b, i + 1)

C8_Originals == SeqsUpTo(UnsyncBytes, MaxSrcLen)

-----------------------------------------------------------------------------
(* Properties of the tag header and of Tag::from_reader *)

\* the 28-bit synchsafe value: the low 7 bits of each byte, most significant
\* byte first
C9_synchsafe28(b) ==
  (b[1] % 128) * 2097152 + (b[2] % 128) * 16384 + (b[3] % 128) * 128 + (b[4] % 128)

\* C9: a 10-byte input with flag byte 0x00 parses exactly when it starts with
\* "ID3" and its major version is 2, 3 or 4; then the version is the major,
\* the flags are empty, data_len is the synchsafe value of the size bytes,
\* there is no extended header and the revision byte plays no part; otherwise
\* the error is InvalidField(Identifier), or InvalidField(Version) when only
\* the major is unsupported.
C9_HeaderParse ==
  (h_result.tag # "-" /\ Len(h_input) = 10 /\ h_input[6] = 0) =>
    LET idok == SubSeq(h_input, 1, 3) = <<73, 68, 51>>
        mjok == h_input[4] \in {2, 3, 4}
    IN  /\ (h_result.tag = "Ok") <=> (idok /\ mjok)
        /\ h_result.tag = "Ok" =>
             /\ h_result.version = CASE h_input[4] = 2 -> "ID3v22"
                                     [] h_input[4] = 3 -> "ID3v23"
                                     [] h_input[4] = 4 -> "ID3v24"
             /\ h_result.bitflags = 0
             /\ ~h_result.has_ext
             /\ h_result = Header_from_reader([h_input EXCEPT ![5] = 0])
             /\ Header_data_len(h_result) = C9_synchsafe28(SubSeq(h_input, 7, 10))
        /\ ~idok => (h_result.tag = "Err" /\ h_result.kind = "InvalidField(Identifier)")
        /\ (idok /\ ~mjok) => (h_result.tag = "Err" /\ h_result.kind = "InvalidField(Version)")

\* C10: when Tag::from_reader succeeds, data_len() + 10 is at most the length
\* of the input; an input that ends before the announced body is rejected
\* with an IO error.
C10_TagFitsInput ==
  t_fill = 0 =>     \* the input is t_input and nothing more
    /\ t_result.tag = "Ok" => Header_data_len(t_header) + 10 <= Len(t_input)
    /\ (/\ t_pc = "done" /\ t_header.tag = "Ok"
        /\ ~Header_data_len_overflows(t_header)
        /\ Len(t_input) < t_header.consumed + Header_data_len(t_header))
         => (t_result.tag = "Err" /\ t_result.kind = "IO")

-----------------------------------------------------------------------------
(* Properties of the tag header, the extended header and the body length *)

\* the length of the Tag's buffer, as a u32
C11_buffer_len == [hi |-> t_result.more.hi,
                   lo |-> t_result.more.lo + Len(t_result.buffer)]

\* C11: when a tag parses, the length of its buffer is header.data_len(),
\* which is the raw length of the header minus ext_size when there is an
\* extended header and the raw length otherwise, and lies between 0 and the
\* raw length.
C11_BodyLength ==
  t_result.tag = "Ok" =>
    LET raw == t_header.data_len IN
    /\ t_header.has_ext  => C11_buffer_len = u32(raw - t_header.ext_size)
    /\ ~t_header.has_ext => C11_buffer_len = u32(raw)
    /\ u32_le(u32(0), C11_buffer_len) /\ u32_le(C11_buffer_len, u32(raw))

\* C12: the extended-header flag (0x40) is honoured only on v2.3 and v2.4: a
\* v2.2 header with the bit set is an error InvalidField(Version); a v2.3 or
\* v2.4 header with the bit set carries an extended header of that version's
\* layout; with the bit clear no extended header is parsed.
C12_ExtFlagHonoured ==
  (t_pc # "start" /\ t_header.tag # "Panic") =>
    LET major == t_input[4]
        bit   == Contains(t_input[6], 6)
        rest  == SubSeq(t_input, 11, Len(t_input))
    IN  /\ (major = 2 /\ bit) =>
             (t_header.tag = "Err" /\ t_header.kind = "InvalidField(Version)")
        /\ (major \in {3, 4} /\ bit /\ t_header.tag = "Ok") =>
             LET ext == IF major = 3 THEN ExtHeader_from_reader_v3(rest)
                                     ELSE ExtHeader_from_reader_v4(rest)
             IN  /\ t_header.has_ext /\ ext.tag = "Ok"
                 /\ t_header.ext_size = ext.ext_size
                 /\ t_header.consumed = 10 + ext.used
        /\ (~bit /\ t_header.tag = "Ok") =>
             (~t_header.has_ext /\ t_header.consumed = 10)

\* C13: a v2.3 or v2.4 header with both UNSYNCHRONISATION (0x80) and the
\* extended-header flag (0x40) set is rejected: Header::from_reader, and so
\* Tag::from_reader, returns an error value and never a Header.
C13_UnsyncExtRejected ==
  (/\ t_pc # "start"
   /\ t_input[4] \in {3, 4}
   /\ Contains(t_input[6], 7) /\ Contains(t_input[6], 6))
    => /\ t_header.tag = "Err"
       /\ t_result.tag = "Err"

-----------------------------------------------------------------------------
(* Properties of the frame header parsers *)

\* the size bytes of the frame in f_input
C14_size_bytes ==
  IF f_version = "ID3v22" THEN SubSeq(f_input, 4, 6) ELSE SubSeq(f_input, 5, 8)

\* the sum b0*2^21 + b1*2^14 + b2*2^7 + b3 over the bytes as they are
C14_sum28(b) == b[1] * 2097152 + b[2] * 16384 + b[3] * 128 + b[4]

\* C14: the descriptor of a parsed frame is decoded with the width of the
\* version: v2.4 the 28-bit synchsafe value b0*2^21 + b1*2^14 + b2*2^7 + b3
\* (read either over the bytes as they are or over their low 7 bits), v2.3
\* the 32-bit big-endian value, v2.2 the 24-bit big-endian value.
C14_DescriptorWidth ==
  f_result.tag = "Some" =>
    LET b == C14_size_bytes
        d == f_result.frame.descriptor
    IN  CASE f_version = "ID3v24" -> d = C14_sum28(b) \/ d = C9_synchsafe28(b)
          [] f_version = "ID3v23" -> d = b[1] * 16777216 + b[2] * 65536 + b[3] * 256 + b[4]
          [] f_version = "ID3v22" -> d = b[1] * 65536 + b[2] * 256 + b[3]

\* the second flag byte (the format flags) of the v2.4 frame in f_input
C15_format_flags == f_input[10]

\* the frame header is complete but for the flag combination: a valid
\* identifier, a descriptor that is not zero, and the bytes of the grouping
\* identity and of the encryption method where their flags are set
C15_otherwise_complete ==
  /\ is_frame_id(SubSeq(f_input, 1, 4))
  /\ SubSeq(f_input, 5, 8) # <<0, 0, 0, 0>>
  /\ Len(f_input) >= 10 + (IF Contains(C15_format_flags, 6) THEN 1 ELSE 0)
                        + (IF Contains(C15_format_flags, 2) THEN 1 ELSE 0)

\* C15: FrameV4::from_slice never returns a frame whose flags have
\* COMPRESSION set and DATA_LENGTH_INDICATOR clear; such a header is rejected,
\* with the error InvalidBitFlag when it is otherwise complete.
C15_CompressionNeedsLength ==
  (/\ f_version = "ID3v24" /\ f_result.tag # "-" /\ Len(f_input) >= 10
   /\ Contains(C15_format_flags, 3) /\ ~Contains(C15_format_flags, 0))
    => /\ f_result.tag # "Some"
       /\ C15_otherwise_complete =>
            (f_result.tag = "Err" /\ f_result.kind = "InvalidBitFlag")

\* C16: a v2.4 frame whose UNSYNCHRONISATION flag (bit 1 of the format flags)
\* is set is rejected with an error: from_slice returns Err, it does not
\* abort and does not return the frame.
C16_FrameUnsyncRejected ==
  (/\ f_version = "ID3v24" /\ f_result.tag # "-" /\ Len(f_input) >= 10
   /\ Contains(f_input[10], 1))
    => f_result.tag = "Err"

-----------------------------------------------------------------------------
(* Properties of content decoding *)

\* the frame identifier has no arm in the match of Content::decode
C17_not_in_table == Content_dispatch(c_version, c_name) = "Unknown"

\* C17: for every version and every valid frame identifier that has no arm in
\* the dispatch of that version, Content::decode returns Ok with the Unknown
\* variant holding exactly the body bytes; it neither errs nor aborts.
C17_UnknownIsReturned ==
  (c_result.tag # "-" /\ C17_not_in_table)
    => /\ c_result.tag = "Ok"
       /\ c_result.variant = "Unkn"
       /\ c_result.fields = <<c_body>>

\* the decoder after the encoding and the image format of a picture body
C18_before_picture_type ==
  decode_fields(SubSeq(Frame_fields(c_version, "Apic"), 1, 2), c_body,
                Decoder_new, <<>>, c_seeks_end)

\* the body is a picture body whose picture-type byte is outside 0x00..0x14
C18_bad_picture_type ==
  /\ Content_dispatch(c_version, c_name) = "Apic"
  /\ C18_before_picture_type.tag = "Ok"
  /\ C18_before_picture_type.pos < Len(c_body)
  /\ c_body[C18_before_picture_type.pos + 1] > 20

\* C18: decoding an APIC (v2.2: PIC) body whose picture-type byte is outside
\* 0x00..0x14 returns Err(InvalidFrameData) to the caller, whatever bytes
\* follow that byte, so that the caller can go on to the next frame.
C18_PictureTypeErrIsLocal ==
  (c_result.tag # "-" /\ C18_bad_picture_type)
    => (c_result.tag = "Err" /\ c_result.kind = "InvalidFrameData")

\* how many leading bytes of a record are fixed-width fields
RECURSIVE C19_fixed_len(_)
C19_fixed_len(tys) ==
  IF tys = <<>> THEN 0
  ELSE LET w == CASE tys[1] \in {"Encoding", "PicType", "u8"} -> 1
                  [] tys[1] \in {"ImgTypeV2", "Language"} -> 3
                  [] tys[1] = "u32" -> 4
                  [] tys[1] = "Date" -> 8
                  [] OTHER -> 0 IN
       IF w = 0 THEN 0 ELSE w + C19_fixed_len(Tail(tys))

\* the body ends inside the leading fixed-width fields of its record
C19_truncated ==
  /\ Content_dispatch(c_version, c_name) \notin {"TODO", "Unknown"}
  /\ Len(c_body) < C19_fixed_len(Frame_fields(c_version,
                                   Content_dispatch(c_version, c_name)))

\* C19: when a frame body ends before all fields of its record have been read
\* (it is too short for a fixed-width field), decoding the frame returns an
\* error of kind InvalidFrameData and never one of kind IO.
C19_TruncatedIsInvalidFrameData ==
  (c_result.tag # "-" /\ C19_truncated)
    => (c_result.tag = "Err" /\ c_result.kind = "InvalidFrameData")

\* the bytes of the first string of a body, up to its terminator
C20_view == SubSeq(c_body, 2, 1 + Slice_until_nul2(Tail(c_body)))

\* a text frame under encoding 0x01 whose body holds one string and no more
C20_one_utf16_string ==
  /\ Content_dispatch(c_version, c_name) = "Text"
  /\ Len(c_body) >= 1 /\ c_body[1] = 1
  /\ Len(c_body) <= 1 + Len(C20_view) + 2

\* C20: decoding a string under encoding 0x01 (UTF-16 with BOM): with fewer
\* than two bytes before the terminator, or with two first bytes that are
\* neither FE FF nor FF FE, the result is Err(InvalidFrameData); with exactly a
\* BOM and nothing else the result is Ok with the empty string.
C20_Utf16BomDecoding ==
  (c_result.tag # "-" /\ C20_one_utf16_string)
    => /\ (Len(C20_view) < 2 \/ SubSeq(C20_view, 1, 2) \notin {BOM_BE, BOM_LE})
            => (c_result.tag = "Err" /\ c_result.kind = "InvalidFrameData")
       /\ C20_view \in {BOM_BE, BOM_LE}
            => (c_result.tag = "Ok" /\ c_result.fields[2] = << <<>> >>)

-----------------------------------------------------------------------------
(* Properties of the CHAP sub-frame iterator *)

\* the piece p parsed on its own as an ID3v2.4 frame
C21_alone(p) ==
  DynFrame_from_slice("ID3v24", p, [start |-> 0, len |-> Len(p)], FALSE)

\* the sub-frame data is M >= 1 well-formed sub-frames and nothing else
C21_well_formed ==
  /\ Len(ch_parts) >= 1
  /\ \A k \in 1..Len(ch_parts) :
       /\ C21_alone(ch_parts[k]).tag = "Some"
       /\ C21_alone(ch_parts[k]).frame.total_size = Len(ch_parts[k])

\* C21: for a CHAP frame whose tail is M >= 1 well-formed sub-frames,
\* Chap::frames() yields exactly M Ok items and the k-th item is the k-th
\* sub-frame (its identifier and its body), in file order.
C21_SubFramesInOrder ==
  (ch_last = "None" /\ C21_well_formed)
    => /\ Len(ch_yielded) = Len(ch_parts)
       /\ \A k \in 1..Len(ch_yielded) :
            /\ ch_yielded[k].kind = "Ok"
            /\ ch_yielded[k].identifier = C21_alone(ch_parts[k]).frame.identifier
            /\ ch_yielded[k].data
                 = ViewBytes(ch_parts[k], C21_alone(ch_parts[k]).frame.frame_data)

\* C29: the CHAP sub-frame iterator terminates on every input: it yields
\* finitely many items, and once it has yielded an Err item every later call
\* of next returns None, so an Err item is the last item it ever yields.
C29_ErrEndsIteration ==
  \A i \in 1..Len(ch_yielded) :
    ch_yielded[i].kind = "Err" => i = Len(ch_yielded)

-----------------------------------------------------------------------------
(* Properties of the functions without state *)

\* the number whose 7-bit groups, most significant first, are the bytes b
\* (all below 128), as two 16-bit limbs: its top limb may exceed 16 bits
C22_number7(b) ==
  LET n == Len(b)
      low4 == b[n - 3] * 2097152 + b[n - 2] * 16384 + b[n - 1] * 128 + b[n]
      top  == IF n = 5 THEN b[1] ELSE 0 IN
  [hi |-> top * 4096 + low4 \div Limb, lo |-> low4 % Limb]

\* the number whose big-endian bytes are b (three bytes)
C22_number8(b) == u32(b[1] * 65536 + b[2] * 256 + b[3])

\* C22: integer round trips: decode_u28_unsync(encode28(n)) = n for n < 2^28,
\* decode_u35_unsync(encode35(n)) = n for n < 2^35, and decode_u24 of the
\* three big-endian bytes of n is n for n < 2^24; encodeK writes n as 7-bit
\* groups, most significant first, one per byte with the top bit clear.
C22_RoundTrip ==
  (p_done /\ p_fn \in {"decode_u35_unsync", "decode_u28_unsync", "decode_u24"})
    => p_ret = IF p_fn = "decode_u24" THEN C22_number8(p_arg)
               ELSE C22_number7(p_arg)


\* C23: when no zlib decompressor is built in, decoding a frame whose
\* COMPRESSION flag is set returns an error value to the caller: it neither
\* aborts the program nor returns content.
C23_NoZlibIsErr ==
  (p_done /\ p_fn = "Content::decode2" /\ ~p_arg.zlib) => p_ret.tag = "Err"

\* the same content value with every Cow in it owned
RECURSIVE C24_owned(_)
C24_owned(v) ==
  [v EXCEPT !.owned = (v.ty = "Cow"),
            !.items = [i \in 1..Len(v.items) |-> C24_owned(v.items[i])]]

\* C24: into_owned is defined on every content value, the Content sum
\* included, and is idempotent: into_owned(v) is v with every borrowed string
\* or byte view owned and equal contents, and into_owned of that is the same.
C24_IntoOwnedIdempotent ==
  (p_done /\ p_fn = "into_owned")
    => /\ p_ret = Ok(C24_owned(p_arg))
       /\ into_owned(p_ret.val) = p_ret

-----------------------------------------------------------------------------
(* Termination of the Unsync reader *)

\* C25: reading an Unsync reader over a finite stream terminates: once the
\* stream is exhausted and the pending bytes have been emitted (here by the
\* first read, whose buffer is longer than the stream), every further read
\* returns Ok(0), and the bytes returned over all calls never outnumber the
\* bytes of the stream, whatever its ending (a final 0xFF, a final 0xFF 0x00).
C25_ReadsTerminate ==
  /\ Len(u_out) <= Len(u_src)
  /\ u_reads >= 2 => u_ret = 0


\* the bytes from index Min(n, Len(b)) of b on
C26_suffix(b, n) == SubSeq(b, Min(n, Len(b)) + 1, Len(b))

\* the first Min(n, Len(b)) bytes of b
C26_prefix(b, n) == SubSeq(b, 1, Min(n, Len(b)))

\* C26: for every Slice s, the empty one included, and every count,
\* skip(count) is the suffix of s from index min(count, len) (empty when
\* count >= len), take(count) is the first min(count, len) bytes and
\* view(start, count) = skip(start).take(count); none aborts or reads
\* outside s.
C26_SkipTakeView ==
  (p_done /\ p_fn \in {"Slice::skip", "Slice::take", "Slice::view"})
    => /\ p_ret.fault = "none"
       /\ p_ret.slice.start + p_ret.slice.len <= Len(p_arg.bytes)
       /\ ViewBytes(p_arg.bytes, p_ret.slice)
            = CASE p_fn = "Slice::skip" -> C26_suffix(p_arg.bytes, p_arg.count)
                [] p_fn = "Slice::take" -> C26_prefix(p_arg.bytes, p_arg.count)
                [] p_fn = "Slice::view" ->
                     C26_prefix(C26_suffix(p_arg.bytes, p_arg.start), p_arg.count)

-----------------------------------------------------------------------------
(* The bytes taken by the extended header *)

\* C27: for every extended header that parses (v2.3 or v2.4, any flags), the
\* number of bytes the parser consumed from the reader for it is the ext_size
\* it reports, so that the body of data_len() bytes read next starts right
\* after the extended header and ends at the end of the tag.
C27_ExtConsumedIsExtSize ==
  (t_header.tag = "Ok" /\ t_header.has_ext)
    => /\ t_header.consumed - 10 = t_header.ext_size
       /\ t_header.consumed + Header_data_len(t_header) = 10 + t_header.data_len


\* C28: for every Latin-1 byte string (bytes 0x01..0xFF before the
\* terminator) the decoded text is the sequence of code points equal to the
\* byte values and is valid UTF-8, on the borrowed path (all bytes in
\* 0x20..0xFF) as on the allocating path (some byte below 0x20).
C28_Latin1CodePoints ==
  (p_done /\ p_fn = "decode_latin1") => p_ret = Ok(p_arg)

-----------------------------------------------------------------------------
(* Properties of the lyrics iterator *)

\* a piece is an entry: a text without 0x00, its terminator, four time bytes
C30_entry(p) == Len(p) >= 5 /\ Slice_until_nul(p) = Len(p) - 5

\* the item of an entry: its text and its four time bytes
C30_item(p) == Ok(<<SubSeq(p, 1, Len(p) - 5), SubSeq(p, Len(p) - 3, Len(p))>>)

\* C30: Sylt::lyrics() yields one item per (text, timestamp) entry of the
\* binary data, in order and in the frame's text encoding (here Latin-1),
\* and then returns None; for empty data it yields nothing, and on every
\* input it yields finitely many items.
C30_LyricsInOrder ==
  (sy_fmt = "Latin1" /\ \A k \in 1..Len(sy_parts) : C30_entry(sy_parts[k]))
    => /\ sy_pc = "run"
       /\ Len(sy_yielded) <= Len(sy_parts)
       /\ \A k \in 1..Len(sy_yielded) : sy_yielded[k] = C30_item(sy_parts[k])
       /\ sy_last = "None" => Len(sy_yielded) = Len(sy_parts)

=============================================================================
